---- MODULE Spec2Model ----
(***************************************************************************)
(* Whisper dictation (src/pkgs/whisper): a hotkey listener emits toggle    *)
(* events, a bridge task relays them to the control loop of main(), which  *)
(* starts and stops the AudioRecorder; the cpal input callback appends     *)
(* samples to the shared frame buffer.                                     *)
(*                                                                         *)
(* A sample is identified by its position in the stream of the session it  *)
(* was delivered in; the frame buffer is kept as a sequence of ranges      *)
(* <<lo, hi>> (the samples lo .. hi-1), adjacent ranges merged, so that    *)
(* the real capacities (44100 * 2 * seconds) can be explored.              *)
(***************************************************************************)
EXTENDS Integers, Sequences, FiniteSets, TLC

\* ---------------------------------------------------------------- bounds
MaxToggles == 2
MaxStdinLines == 1
MaxCallbacks == 1
MaxEngineCallbacks == 3
MaxCalls == 4
MaxSamples == 2
MaxListenErrors == 2
MaxRetries == 2
MaxTyped == 2
MaxStdinSends == 4
MaxO3Toggles == 4
O3MaxSecs == 3

\* ------------------------------------------------------ program constants
MAX_SAMPLE_RATE == 44100
MAX_CHANNELS == 2
HOTKEY_CHANNEL_CAPACITY == 32

\* Values of config.max_time (seconds) the recorder is constructed with.
MaxTimeChoices == {0, 1}

\* Sizes of the chunks the audio subsystem hands to the input callback.
ChunkSizes == {20000, 88200}

\* The keys of the chord: the two variants of the modifier and the target key.
\* Every other key, and every non-keyboard event, leaves the listener state
\* unchanged in both backends and is not generated.
ModifierKeys == {"ModL", "ModR"}
TargetKey == "Target"
Keys == ModifierKeys \cup {TargetKey}

\* Input devices the host may expose as the default input device: the set of
\* advertised format ranges of each.
Range(ch, lo, hi) == [channels |-> ch, min_sample_rate |-> lo, max_sample_rate |-> hi]
Devices ==
    { {Range(1, 16000, 16000)},
      {Range(1, 8000, 48000), Range(2, 44100, 48000)},
      {Range(4, 48000, 48000)} }

\* Format ranges a device may advertise in supported_input_configs(); a
\* device of NegotiateSpec advertises any subset of them.
FormatPool ==
    { Range(1, 16000, 16000), Range(1, 8000, 48000), Range(2, 8000, 32000),
      Range(2, 44100, 48000), Range(2, 48000, 96000), Range(4, 48000, 48000) }

NoConfig == [channels |-> 0, sample_rate |-> 0]

\* The width-level record of AudioRecorder::new before any call of it.
NotCalled == [arg |-> 0, kind |-> "none", max_frames |-> <<>>]

\* The record of a transcription call before any call.
NoCall == [service |-> "none", retries |-> 0, pc |-> "idle", attempt |-> 0,
           attempts |-> 0, trace |-> <<>>, result |-> "none"]

\* The range of i16.
I16_MAX == 32767
I16_MIN == -32768

\* f32 samples. A number is kept as its count of sixteenths (num / 16): for
\* the values used, the sample and its product with 32767.0 are exact in f32.
NaN == [nan |-> TRUE, num |-> 0]
Num(n) == [nan |-> FALSE, num |-> n]
SampleValues == {Num(n) : n \in {-48, -17, -16, -9, 0, 9, 16, 17}} \cup {NaN}
SampleSeqs == UNION {[1..n -> SampleValues] : n \in 0..MaxSamples}

\* The /dev/input/event* paths that may exist.
DevicePaths == {"event0", "event1"}

VARIABLES
    \* hotkey listener
    backend,            \* "rdev" or "evdev", chosen once by listen_for_hotkeys
    physDown,           \* keys physically held (the environment)
    state,              \* listen_rdev's State {mod_pressed, key_pressed}
    modifier_pressed,   \* listen_wayland's modifier_pressed
    listenerPc,         \* "listening" or "done"
    emitted,            \* number of toggle events the listener has sent
    listenCalls,        \* calls of rdev::listen made by listen_rdev
    listenErrors,       \* calls of rdev::listen that returned an error
    \* history of the key events, recorded in ListenerSpec only
    holdEmits,          \* toggles emitted while the target key and some modifier
                        \* key have both been held without interruption
    afterModRelease,    \* "none"; "released" once every modifier key was released
                        \* with the target key down; "repressed" once the target
                        \* key was pressed again; a modifier press resets it
    \* toggle bridge
    asyncChan,          \* listener -> bridge task (unbounded channel)
    bridgeHeld,         \* the event the bridge task has received and not yet sent
    bridgePc,           \* "recv", "send" or "done"
    hotkeyChan,         \* bridge/stdin -> control loop, mpsc::channel(32)
    stdinPc,            \* the stdin fallback task: "reading" or "done"
    stdinSent,          \* number of toggle events the stdin task has sent
    \* control loop
    IS_RUNNING,
    mainPc,             \* "top" (the while test), "select" or "exited"
    app_is_recording,   \* AppState.is_recording
    consumed,           \* the toggle events the control loop has handled, in order
    tasks,              \* spawned process_recorded_audio tasks not yet finished
    \* AudioRecorder
    max_time,           \* config.max_time
    max_frames,
    frames,
    stream,             \* TRUE when self.stream is Some
    stream_config,
    is_recording_flag,
    delivered,          \* samples handed to the callback by the open stream
    callbacks,          \* callback invocations of the open stream
    stream_thread,      \* the audio subsystem's thread of the open stream:
                        \* "none", "running" or "panicked"
    everStarted,        \* start() has been called on this recorder
    lastCall,           \* the last AudioRecorder method call and what it returned
    calls,              \* number of method calls made by the free client
    \* save_f32_to_wav, one call on a fresh path
    wavIn,              \* the data argument
    wavFile,            \* the file at the path after the call
    wavResult,          \* "none" before the call, then "Ok" or "Err"
    \* the device polling of the evdev thread
    present,            \* /dev/input/event* paths that exist (the environment)
    devices,            \* tracked paths: the keys of the devices map
    poll_fds,           \* descriptors in the poll set, named by their path
    stale,              \* tracked paths whose device vanished after it was opened
    ready,              \* descriptors the last poll reported readable
    pollPc,             \* "scan", "test", "sleep", "poll", "process" or "done"
    staleAtPoll,        \* the descriptors that were stale when poll was last called
    staleRead,          \* history: a descriptor that was stale when poll was
                        \* called has been read
    unreadable,         \* paths the process has no permission to open (the
                        \* environment)
    denied,             \* paths whose open was refused in the last scan
    \* both matchers fed the same key events (EquivSpec)
    rdevToggles,        \* toggles the rdev closure has emitted
    evdevToggles,       \* toggles the evdev matching has emitted
    \* format negotiation (NegotiateSpec)
    advertised,         \* the formats advertised to the last start() that
                        \* reached supported_input_configs()
    \* the recorder's two mutexes, statement by statement (LockSpec)
    ctlPc,              \* where the control thread is inside start(), stop() or
                        \* is_recording(); "idle" between calls
    cbPc,               \* where the invocation of the input callback is; "idle"
                        \* when none is running
    cbLen,              \* length of the chunk of the running invocation
    flagLock,           \* holder of the is_recording_flag mutex: "none", "ctl", "cb"
    framesLock,         \* holder of the frames mutex: "none", "ctl", "cb"
    signalled,          \* history: stop() has cleared the flag of this session
    lateAppend,         \* history: samples were appended while signalled
    \* process_recorded_audio
    jobs,               \* the spawned process_recorded_audio tasks, in spawn order
    \* one call of a transcription function
    api,                \* [service, retries, pc, attempt, attempts, trace, result]:
                        \*   service  "replicate", "elevenlabs", "openai"; "none"
                        \*            before a call
                        \*   retries  config.retries of the call
                        \*   pc       "idle", "loop" (in the retry loop), "done"
                        \*   attempt  the loop variable of the retry loop
                        \*   attempts HTTP requests sent by the call
                        \*   trace    what each iteration of the loop met, in order
                        \*   result   how the call left the loop; "none" before
    \* the terminal behind the stdin task
    terminal,           \* [typed, unread, closed]:
                        \*   typed    lines the operator has entered
                        \*   unread   lines entered and not yet taken by a read
                        \*   closed   stdin is closed: a read with nothing unread
                        \*            is at EOF
    \* AudioRecorder::new at the width of u32
    created,            \* [arg, kind, max_frames]: max_time_seconds of the last
                        \* call of new, its outcome, and max_frames in limbs
    \* the main-o3 variant
    o3                  \* [chan, listenerPc, mainPc, isRecording, elapsed, toggles,
                        \*  toggledDuring, endedAt]:
                        \*   chan          toggles in the bounded(1) channel
                        \*   listenerPc    "idle", or "sending" while send blocks
                        \*   mainPc        "select", "recording", "processing",
                        \*                 "exited"
                        \*   isRecording   IS_RECORDING
                        \*   elapsed       seconds since Recorder::start began
                        \*                 its wait
                        \*   toggles       toggles generated by the listener
                        \*   toggledDuring history: a toggle was generated during
                        \*                 this recording, before its maximum
                        \*                 duration had elapsed
                        \*   endedAt       history: seconds the last recording had
                        \*                 run at its end

listenerVars == <<backend, physDown, state, modifier_pressed, listenerPc, emitted,
                  listenCalls, listenErrors, holdEmits, afterModRelease>>
bridgeVars == <<asyncChan, bridgeHeld, bridgePc, hotkeyChan, stdinPc, stdinSent>>
mainVars == <<IS_RUNNING, mainPc, app_is_recording, consumed, tasks>>
recorderVars == <<max_time, max_frames, frames, stream, stream_config,
                  is_recording_flag, delivered, callbacks, stream_thread,
                  everStarted, lastCall>>
encoderVars == <<wavIn, wavFile, wavResult>>
pollVars == <<present, devices, poll_fds, stale, ready, pollPc, staleAtPoll, staleRead,
              unreadable, denied>>
pairVars == <<rdevToggles, evdevToggles>>
negotiateVars == <<advertised>>
processVars == <<jobs>>
stdinVars == <<terminal>>
widthVars == <<created>>
o3Vars == <<o3>>
retryVars == <<api>>
lockVars == <<ctlPc, cbPc, cbLen, flagLock, framesLock, signalled, lateAppend>>
restVars == <<negotiateVars, lockVars, processVars, retryVars, stdinVars, widthVars,
             o3Vars>>
auxVars == <<encoderVars, pollVars, pairVars, restVars>>
vars == <<listenerVars, bridgeVars, mainVars, recorderVars, calls, auxVars>>

Min(a, b) == IF a <= b THEN a ELSE b

\* The process lives until main() returns.
Alive == mainPc # "exited"

\* ------------------------------------------------------------ frame buffer
RECURSIVE FramesLen(_)
FramesLen(f) == IF f = <<>> THEN 0 ELSE (f[1][2] - f[1][1]) + FramesLen(Tail(f))

\* Vec::extend_from_slice(&data[..n]) where data holds the samples from..from+n-1
Extend(f, from, n) ==
    IF n = 0 THEN f
    ELSE IF f # <<>> /\ f[Len(f)][2] = from
         THEN [f EXCEPT ![Len(f)] = <<f[Len(f)][1], from + n>>]
         ELSE Append(f, <<from, from + n>>)

\* ------------------------------------------------------- AudioRecorder::new
\* The u32 product; for the max_time values explored (MaxTimeChoices) it is far
\* below 2^32, so no wrap-around occurs in it.
NewMaxFrames(max_time_seconds) ==
    MAX_SAMPLE_RATE * MAX_CHANNELS * max_time_seconds

\* ----------------------------------------------------- AudioRecorder::start
\* The format negotiation of start(): filter, max_by_key, min with the ceiling.
Candidates(configs) ==
    {c \in configs : c.channels <= MAX_CHANNELS /\ c.min_sample_rate <= MAX_SAMPLE_RATE}

KeyLeqRateFirst(a, b) ==
    \/ a.max_sample_rate < b.max_sample_rate
    \/ a.max_sample_rate = b.max_sample_rate /\ a.channels <= b.channels
KeyLeq(a, b) ==
    \/ a.channels < b.channels
    \/ a.channels = b.channels /\ a.max_sample_rate <= b.max_sample_rate

Negotiate(configs) ==
    LET best == CHOOSE c \in Candidates(configs) :
                    \A d \in Candidates(configs) : KeyLeq(d, c)
    IN [channels |-> best.channels,
        sample_rate |-> Min(best.max_sample_rate, MAX_SAMPLE_RATE)]

Call(op, kind, cfg, data) == [op |-> op, kind |-> kind, config |-> cfg, data |-> data]

\* start(): dev is the default input device (NoDevice when the host has none),
\* fail names the cpal call that fails, if any.
NoDevice == {}
StartFailures == {"none", "device", "build", "play"}

RecorderStart(dev, fail) ==
    /\ everStarted' = TRUE
    /\ IF is_recording_flag
       THEN \* "Recording already in progress."
            /\ lastCall' = Call("start", "Ok", NoConfig, <<>>)
            /\ UNCHANGED <<frames, stream, stream_config, is_recording_flag,
                           delivered, callbacks, stream_thread>>
       ELSE /\ frames' = <<>>
            /\ IF dev = NoDevice \/ fail = "device" \/ Candidates(dev) = {} \/ fail = "build"
               THEN /\ lastCall' = Call("start", "Err", NoConfig, <<>>)
                    /\ UNCHANGED <<stream, stream_config, is_recording_flag,
                                   delivered, callbacks, stream_thread>>
               ELSE /\ stream_config' = Negotiate(dev)
                    /\ IF fail = "play"
                       THEN /\ lastCall' = Call("start", "Err", NoConfig, <<>>)
                            /\ UNCHANGED <<stream, is_recording_flag, delivered,
                                           callbacks, stream_thread>>
                       ELSE /\ stream' = TRUE
                            /\ stream_thread' = "running"
                            /\ is_recording_flag' = TRUE
                            /\ delivered' = 0
                            /\ callbacks' = 0
                            /\ lastCall' = Call("start", "Ok", NoConfig, <<>>)
    /\ UNCHANGED <<max_time, max_frames>>

\* ------------------------------------------------------ the input callback
ElementsToAddUnclamped(len, space_left) == len
ElementsToAdd(len, space_left) == Min(len, space_left)

\* One invocation of the input callback with a chunk of len samples.
InputCallback(len) ==
    /\ delivered' = delivered + len
    /\ callbacks' = callbacks + 1
    /\ IF ~is_recording_flag
       THEN UNCHANGED <<frames, is_recording_flag>>
       ELSE IF FramesLen(frames) >= max_frames
            THEN /\ is_recording_flag' = FALSE
                 /\ UNCHANGED frames
            ELSE /\ frames' = Extend(frames, delivered,
                                     ElementsToAdd(len, max_frames - FramesLen(frames)))
                 /\ UNCHANGED is_recording_flag
    /\ UNCHANGED <<max_time, max_frames, stream, stream_config, stream_thread,
                   everStarted, lastCall>>

\* The audio subsystem invokes the callback of the open stream.
AudioCallback ==
    /\ Alive
    /\ stream /\ stream_thread = "running"
    /\ callbacks < MaxCallbacks
    /\ \E len \in ChunkSizes : InputCallback(len)
    /\ UNCHANGED <<listenerVars, bridgeVars, mainVars, calls, auxVars>>

\* ------------------------------------------------------ AudioRecorder::stop
StopResultConfigFirst(f, cfg) ==
    IF cfg = NoConfig THEN Call("stop", "Err", NoConfig, <<>>)
    ELSE IF f = <<>> THEN Call("stop", "NoData", NoConfig, <<>>)
    ELSE Call("stop", "Data", cfg, f)
StopResult(f, cfg) ==
    IF f = <<>> THEN Call("stop", "NoData", NoConfig, <<>>)
    ELSE IF cfg = NoConfig THEN Call("stop", "Err", NoConfig, <<>>)
    ELSE Call("stop", "Data", cfg, f)

\* self.stream.take(): the handle leaves the recorder before pause() is tried
\* and is dropped on every way out of stop().
StreamAfterStopKeptOnPauseError(s, pauseFails) == s /\ pauseFails
StreamAfterStop(s, pauseFails) == FALSE

\* stop(): pauseFails says whether stream.pause() returns an error.
RecorderStop(pauseFails) ==
    /\ is_recording_flag' = FALSE
    /\ stream' = StreamAfterStop(stream, pauseFails)
    /\ stream_thread' = IF stream' THEN stream_thread ELSE "none"
    /\ lastCall' = IF stream /\ pauseFails
                   THEN Call("stop", "Err", NoConfig, <<>>)
                   ELSE StopResult(frames, stream_config)
    /\ UNCHANGED <<max_time, max_frames, frames, stream_config, delivered,
                   callbacks, everStarted>>

\* ---------------------------------------------- AudioRecorder::is_recording
RecorderIsRecording ==
    /\ lastCall' = Call("is_recording", IF is_recording_flag THEN "True" ELSE "False",
                        NoConfig, <<>>)
    /\ UNCHANGED <<max_time, max_frames, frames, stream, stream_config,
                   is_recording_flag, delivered, callbacks, stream_thread, everStarted>>

\* ------------------------------------------------------- hotkey listeners
\* The modifier-release branch of the rdev closure.
OnModifierReleaseKeepsModifier(st) ==
    [mod_pressed |-> st.mod_pressed, key_pressed |-> FALSE, emit |-> FALSE]
OnModifierReleaseKeepsLatch(st) ==
    [mod_pressed |-> FALSE, key_pressed |-> st.key_pressed, emit |-> FALSE]
OnModifierRelease(st) ==
    [mod_pressed |-> FALSE, key_pressed |-> FALSE, emit |-> FALSE]

\* The closure given to rdev::listen. type is "KeyPress" or "KeyRelease".
RdevCallback(st, type, key) ==
    IF type = "KeyPress"
    THEN IF key \in ModifierKeys
         THEN [mod_pressed |-> TRUE, key_pressed |-> FALSE, emit |-> FALSE]
         ELSE IF key = TargetKey
              THEN IF ~st.key_pressed /\ st.mod_pressed
                   THEN [mod_pressed |-> st.mod_pressed, key_pressed |-> TRUE, emit |-> TRUE]
                   ELSE [mod_pressed |-> st.mod_pressed, key_pressed |-> st.key_pressed,
                         emit |-> FALSE]
              ELSE [mod_pressed |-> st.mod_pressed, key_pressed |-> st.key_pressed,
                    emit |-> FALSE]
    ELSE IF key \in ModifierKeys
         THEN OnModifierRelease(st)
         ELSE IF key = TargetKey
              THEN [mod_pressed |-> st.mod_pressed, key_pressed |-> FALSE, emit |-> FALSE]
              ELSE [mod_pressed |-> st.mod_pressed, key_pressed |-> st.key_pressed,
                    emit |-> FALSE]

\* The key-event matching of the evdev thread. value is the event value:
\* 1 press, 2 autorepeat, 0 release.
EvdevMatch(mp, key, value) ==
    LET is_pressed == value = 1 \/ value = 2
        is_released == value = 0
    IN IF key \in ModifierKeys
       THEN IF is_pressed THEN [modifier_pressed |-> TRUE, emit |-> FALSE]
            ELSE IF is_released THEN [modifier_pressed |-> FALSE, emit |-> FALSE]
            ELSE [modifier_pressed |-> mp, emit |-> FALSE]
       ELSE IF key = TargetKey /\ is_pressed
            THEN [modifier_pressed |-> mp, emit |-> mp]
            ELSE [modifier_pressed |-> mp, emit |-> FALSE]

\* What the keyboard can do next: a press edge of a key that is up, an
\* autorepeat notification or the release of a key that is down.
KeyKinds == {"press", "repeat", "release"}
Possible(kind, key) == IF kind = "press" THEN key \notin physDown ELSE key \in physDown
PhysAfter(kind, key) ==
    IF kind = "press" THEN physDown \cup {key}
    ELSE IF kind = "release" THEN physDown \ {key}
    ELSE physDown

HistoryAfter(kind, key) ==
    IF kind = "press" /\ key \in ModifierKeys THEN "none"
    ELSE IF /\ kind = "release" /\ key \in ModifierKeys
            /\ TargetKey \in physDown /\ physDown \cap ModifierKeys = {key}
         THEN "released"
    ELSE IF kind = "press" /\ key = TargetKey /\ afterModRelease # "none"
         THEN "repressed"
    ELSE afterModRelease

HoldEmitsAfter(kind, key, sent) ==
    IF \/ kind = "release" /\ key = TargetKey
       \/ kind = "release" /\ physDown \cap ModifierKeys = {key}
    THEN 0
    ELSE IF sent THEN holdEmits + 1 ELSE holdEmits

\* rdev reports an autorepeat as another KeyPress; evdev as value 2.
RdevType(kind) == IF kind = "release" THEN "KeyRelease" ELSE "KeyPress"
EvdevValue(kind) == IF kind = "press" THEN 1 ELSE IF kind = "repeat" THEN 2 ELSE 0

\* The listener's send of ToggleRecording to the bridge task.
Emit ==
    /\ emitted' = emitted + 1
    /\ asyncChan' = Append(asyncChan, emitted + 1)

\* One key event delivered to the rdev closure.
RdevKey(kind, key) ==
    /\ Possible(kind, key)
    /\ physDown' = PhysAfter(kind, key)
    /\ LET r == RdevCallback(state, RdevType(kind), key)
       IN /\ state' = [mod_pressed |-> r.mod_pressed, key_pressed |-> r.key_pressed]
          /\ IF r.emit /\ bridgePc # "done"
             THEN Emit
             ELSE UNCHANGED <<emitted, asyncChan>>  \* send error only logged
    /\ UNCHANGED <<backend, modifier_pressed, listenerPc, listenCalls, listenErrors>>
    /\ UNCHANGED <<bridgeHeld, bridgePc, hotkeyChan, stdinPc, stdinSent>>
    /\ UNCHANGED <<mainVars, recorderVars, calls, auxVars>>

\* One key event read by the evdev thread.
EvdevKey(kind, key) ==
    /\ Possible(kind, key)
    /\ physDown' = PhysAfter(kind, key)
    /\ IF ~IS_RUNNING
       THEN \* the thread returns at its next event or loop test
            /\ listenerPc' = "done"
            /\ UNCHANGED <<modifier_pressed, emitted, asyncChan>>
       ELSE LET r == EvdevMatch(modifier_pressed, key, EvdevValue(kind))
            IN /\ modifier_pressed' = r.modifier_pressed
               /\ IF r.emit
                  THEN IF bridgePc # "done"
                       THEN Emit /\ UNCHANGED listenerPc
                       ELSE \* "Failed to send to main thread"
                            /\ listenerPc' = "done"
                            /\ UNCHANGED <<emitted, asyncChan>>
                  ELSE UNCHANGED <<emitted, asyncChan, listenerPc>>
    /\ UNCHANGED <<backend, state, listenCalls, listenErrors>>
    /\ UNCHANGED <<bridgeHeld, bridgePc, hotkeyChan, stdinPc, stdinSent>>
    /\ UNCHANGED <<mainVars, recorderVars, calls, auxVars>>

ListenerReady(b) ==
    /\ Alive /\ backend = b /\ listenerPc = "listening"
    /\ emitted < MaxToggles

RdevKeyEvent ==
    /\ ListenerReady("rdev")
    /\ \E kind \in KeyKinds, key \in Keys : RdevKey(kind, key)
    /\ UNCHANGED <<holdEmits, afterModRelease>>

EvdevKeyEvent ==
    /\ ListenerReady("evdev")
    /\ \E kind \in KeyKinds, key \in Keys : EvdevKey(kind, key)
    /\ UNCHANGED <<holdEmits, afterModRelease>>

\* ------------------------------------------------------------ toggle bridge
\* Sender::send on the control loop's channel.
ChanSendFront(ch, ev) == <<ev>> \o ch
ChanSend(ch, ev) == Append(ch, ev)

\* The bridge task receives an event; it stops when the process is shutting down.
BridgeRecv ==
    /\ Alive /\ bridgePc = "recv" /\ asyncChan # <<>>
    /\ IF ~IS_RUNNING
       THEN /\ bridgePc' = "done"
            /\ asyncChan' = <<>>     \* the receiver is dropped with the task
            /\ UNCHANGED bridgeHeld
       ELSE /\ bridgeHeld' = <<Head(asyncChan)>>
            /\ asyncChan' = Tail(asyncChan)
            /\ bridgePc' = "send"
    /\ UNCHANGED <<hotkeyChan, stdinPc, stdinSent>>
    /\ UNCHANGED <<listenerVars, mainVars, recorderVars, calls, auxVars>>

\* bridge_tx.send(event).await: waits while the channel is full.
BridgeSend ==
    /\ Alive /\ bridgePc = "send"
    /\ Len(hotkeyChan) < HOTKEY_CHANNEL_CAPACITY
    /\ hotkeyChan' = ChanSend(hotkeyChan, bridgeHeld[1])
    /\ bridgeHeld' = <<>>
    /\ bridgePc' = "recv"
    /\ UNCHANGED <<asyncChan, stdinPc, stdinSent>>
    /\ UNCHANGED <<listenerVars, mainVars, recorderVars, calls, auxVars>>

\* ------------------------------------------------------ stdin fallback task
\* Toggle events of the stdin task carry the id 0.
StdinEvent == 0

\* read_line returned Ok: the task sends a toggle, then tests IS_RUNNING.
StdinLine ==
    /\ Alive /\ stdinPc = "reading"
    /\ stdinSent < MaxStdinLines
    /\ Len(hotkeyChan) < HOTKEY_CHANNEL_CAPACITY
    /\ hotkeyChan' = ChanSend(hotkeyChan, StdinEvent)
    /\ stdinSent' = stdinSent + 1
    /\ stdinPc' = IF IS_RUNNING THEN "reading" ELSE "done"
    /\ UNCHANGED <<asyncChan, bridgeHeld, bridgePc>>
    /\ UNCHANGED <<listenerVars, mainVars, recorderVars, calls, auxVars>>

\* read_line returned Err: the task ends.
StdinError ==
    /\ Alive /\ stdinPc = "reading"
    /\ stdinPc' = "done"
    /\ UNCHANGED <<asyncChan, bridgeHeld, bridgePc, hotkeyChan, stdinSent>>
    /\ UNCHANGED <<listenerVars, mainVars, recorderVars, calls, auxVars>>

\* ------------------------------------------------------------ control loop
\* The Ctrl+C handler.
CtrlC ==
    /\ Alive /\ IS_RUNNING
    /\ IS_RUNNING' = FALSE
    /\ UNCHANGED <<mainPc, app_is_recording, consumed, tasks>>
    /\ UNCHANGED <<listenerVars, bridgeVars, recorderVars, calls, auxVars>>

\* while IS_RUNNING.load(..)
MainLoopTest ==
    /\ mainPc = "top"
    /\ mainPc' = IF IS_RUNNING THEN "select" ELSE "exited"
    /\ UNCHANGED <<IS_RUNNING, app_is_recording, consumed, tasks>>
    /\ UNCHANGED <<listenerVars, bridgeVars, recorderVars, calls, auxVars>>

\* The sleep branch of select! wins: the pending recv is dropped, which takes
\* nothing from the channel.
MainTimeout ==
    /\ mainPc = "select"
    /\ mainPc' = "top"
    /\ UNCHANGED <<IS_RUNNING, app_is_recording, consumed, tasks>>
    /\ UNCHANGED <<listenerVars, bridgeVars, recorderVars, calls, auxVars>>

NextRecordingStuck(cur) == TRUE
NextRecording(cur) == ~cur

Job(call) == [config |-> call.config, data |-> call.data]

\* After a start() error `?` returns from main; otherwise the loop goes on.
AfterStart(kind) == IF kind = "Err" THEN "exited" ELSE "top"

\* After stop() the job is spawned, not awaited: the loop goes on.
AfterStopAwait(kind) == IF kind = "Data" THEN "processing" ELSE "top"
AfterStop(kind) == "top"

\* The recv branch of select!: the ToggleRecording handler.
MainRecv ==
    /\ mainPc = "select" /\ hotkeyChan # <<>>
    /\ hotkeyChan' = Tail(hotkeyChan)
    /\ consumed' = Append(consumed, Head(hotkeyChan))
    /\ app_is_recording' = NextRecording(app_is_recording)
    /\ IF app_is_recording'
       THEN /\ \E dev \in Devices \cup {NoDevice}, fail \in StartFailures :
                 RecorderStart(dev, fail)
            /\ mainPc' = AfterStart(lastCall'.kind)
            /\ UNCHANGED tasks
       ELSE /\ \E pauseFails \in BOOLEAN : RecorderStop(pauseFails)
            /\ mainPc' = AfterStop(lastCall'.kind)
            /\ tasks' = IF lastCall'.kind = "Data"
                        THEN Append(tasks, Job(lastCall'))
                        ELSE tasks
    /\ UNCHANGED <<IS_RUNNING, asyncChan, bridgeHeld, bridgePc, stdinPc, stdinSent>>
    /\ UNCHANGED <<listenerVars, calls, auxVars>>

\* A spawned process_recorded_audio task runs to its end.
TaskFinish ==
    /\ Alive
    /\ \E i \in 1..Len(tasks) :
        tasks' = SubSeq(tasks, 1, i - 1) \o SubSeq(tasks, i + 1, Len(tasks))
    /\ UNCHANGED <<IS_RUNNING, mainPc, app_is_recording, consumed>>
    /\ UNCHANGED <<listenerVars, bridgeVars, recorderVars, calls, auxVars>>

\* -------------------------------------------------------- save_f32_to_wav
Max(a, b) == IF a >= b THEN a ELSE b

\* sample_f32 * 32767.0, in sixteenths
Scale(s) == s.num * I16_MAX

\* f32::clamp(-32768.0, 32767.0), in sixteenths
Clamp(x) == Max(I16_MIN * 16, Min(x, I16_MAX * 16))

\* The float, in sixteenths, rounded toward zero
Trunc(x) == IF x >= 0 THEN x \div 16 ELSE -((-x) \div 16)

\* `as i16`: NaN gives 0, otherwise round toward zero and saturate.
AsI16(nan, x) == IF nan THEN 0 ELSE Max(I16_MIN, Min(Trunc(x), I16_MAX))

\* The conversion of one sample.
SampleToI16Wrapping(s) ==
    IF s.nan THEN 0 ELSE ((Trunc(Scale(s)) + 98304) % 65536) - 32768
SampleToI16(s) == AsI16(s.nan, Clamp(Scale(s)))

\* write_sample: the two bytes of a 16-bit sample, little-endian.
I16BytesBigEndian(v) == << ((v + 65536) % 65536) \div 256, ((v + 65536) % 65536) % 256 >>
I16Bytes(v) == << ((v + 65536) % 65536) % 256, ((v + 65536) % 65536) \div 256 >>

RECURSIVE PcmBytes(_)
PcmBytes(data) ==
    IF data = <<>> THEN <<>>
    ELSE I16Bytes(SampleToI16(Head(data))) \o PcmBytes(Tail(data))

\* The file at the path: its format fields, the data length its header
\* records (bytes) and the bytes of its data chunk.
NoFile == [exists |-> FALSE, channels |-> 0, sample_rate |-> 0, data_len |-> 0,
           bytes |-> <<>>]
WavFile(cfg, data_len, bytes) ==
    [exists |-> TRUE, channels |-> cfg.channels, sample_rate |-> cfg.sample_rate,
     data_len |-> data_len, bytes |-> bytes]

\* The (sample_rate, channels) arguments explored.
WavConfigs == {[channels |-> 1, sample_rate |-> 16000],
               [channels |-> 2, sample_rate |-> 44100]}

\* The I/O failures of one call: File::create fails ("open"), the header
\* cannot be written ("header"), write_sample number index fails ("write"),
\* finalize fails ("finalize"). After a failure the writer is dropped:
\* flushed is the number of samples that reached the file, header_updated
\* whether the drop brought the header's length field up to date.
NoFailure == [at |-> "none", index |-> 0, flushed |-> 0, header_updated |-> FALSE]
Failures(data) ==
    {NoFailure}
    \cup {[at |-> a, index |-> 0, flushed |-> 0, header_updated |-> FALSE] :
              a \in {"open", "header"}}
    \cup {[at |-> "write", index |-> k, flushed |-> j, header_updated |-> h] :
              k \in 1..Len(data), j \in 0..Len(data), h \in BOOLEAN}
    \cup {[at |-> "finalize", index |-> 0, flushed |-> j, header_updated |-> FALSE] :
              j \in 0..Len(data)}

\* if data.is_empty() { return Err(..) }
DataIsEmptyIgnored(data) == FALSE
DataIsEmpty(data) == data = <<>>

Partial(cfg, data, fail) ==
    LET n == IF fail.at = "write" THEN Min(fail.flushed, fail.index - 1)
             ELSE fail.flushed
        bytes == PcmBytes(SubSeq(data, 1, n))
    IN WavFile(cfg, IF fail.header_updated THEN Len(bytes) ELSE 0, bytes)

\* save_f32_to_wav(path, data, sample_rate, channels) -> the result and the
\* file it leaves at the path.
save_f32_to_wav(data, cfg, fail) ==
    IF DataIsEmpty(data) THEN [result |-> "Err", file |-> NoFile]
    ELSE IF fail.at = "open" THEN [result |-> "Err", file |-> NoFile]
    ELSE IF fail.at = "header" THEN [result |-> "Err", file |-> WavFile(cfg, 0, <<>>)]
    ELSE IF fail.at \in {"write", "finalize"}
         THEN [result |-> "Err", file |-> Partial(cfg, data, fail)]
    ELSE [result |-> "Ok",
          file |-> WavFile(cfg, Len(PcmBytes(data)), PcmBytes(data))]

\* One call of save_f32_to_wav on a path that holds no file.
SaveCall ==
    /\ wavResult = "none"
    /\ \E data \in SampleSeqs, cfg \in WavConfigs :
        \E fail \in Failures(data) :
            /\ wavIn' = data
            /\ wavResult' = save_f32_to_wav(data, cfg, fail).result
            /\ wavFile' = save_f32_to_wav(data, cfg, fail).file
    /\ UNCHANGED <<listenerVars, bridgeVars, mainVars, recorderVars, calls>>
    /\ UNCHANGED <<pollVars, pairVars, restVars>>

\* ------------------------------------------------------------------- Init
Init ==
    /\ backend \in {"rdev", "evdev"}
    /\ physDown = {}
    /\ state = [mod_pressed |-> FALSE, key_pressed |-> FALSE]
    /\ modifier_pressed = FALSE
    /\ listenerPc = "listening"
    /\ emitted = 0
    /\ listenCalls = IF backend = "rdev" THEN 1 ELSE 0
    /\ listenErrors = 0
    /\ holdEmits = 0
    /\ afterModRelease = "none"
    /\ asyncChan = <<>>
    /\ bridgeHeld = <<>>
    /\ bridgePc = "recv"
    /\ hotkeyChan = <<>>
    /\ stdinPc = "reading"
    /\ stdinSent = 0
    /\ IS_RUNNING = TRUE
    /\ mainPc = "top"
    /\ app_is_recording = FALSE
    /\ consumed = <<>>
    /\ tasks = <<>>
    /\ max_time \in MaxTimeChoices
    /\ max_frames = NewMaxFrames(max_time)
    /\ frames = <<>>
    /\ stream = FALSE
    /\ stream_config = NoConfig
    /\ is_recording_flag = FALSE
    /\ delivered = 0
    /\ callbacks = 0
    /\ stream_thread = "none"
    /\ everStarted = FALSE
    /\ lastCall = Call("new", "Ok", NoConfig, <<>>)
    /\ calls = 0
    /\ wavIn = <<>>
    /\ wavFile = NoFile
    /\ wavResult = "none"
    /\ present = DevicePaths
    /\ devices = {}
    /\ poll_fds = {}
    /\ stale = {}
    /\ ready = {}
    /\ pollPc = IF backend = "evdev" THEN "scan" ELSE "done"
    /\ staleAtPoll = {}
    /\ staleRead = FALSE
    /\ rdevToggles = 0
    /\ evdevToggles = 0
    /\ advertised = {}
    /\ ctlPc = "idle"
    /\ cbPc = "idle"
    /\ cbLen = 0
    /\ flagLock = "none"
    /\ framesLock = "none"
    /\ signalled = FALSE
    /\ lateAppend = FALSE
    /\ unreadable = {}
    /\ denied = {}
    /\ jobs = <<>>
    /\ api = NoCall
    /\ terminal = [typed |-> 0, unread |-> 0, closed |-> FALSE]
    /\ created = NotCalled
    /\ o3 = [chan |-> 0, listenerPc |-> "idle", mainPc |-> "select",
             isRecording |-> FALSE, elapsed |-> 0, toggles |-> 0,
             toggledDuring |-> FALSE, endedAt |-> 0]

\* The toggle path of the program: listener, bridge, stdin task, control loop,
\* recorder and input callback.
Next ==
    \/ RdevKeyEvent
    \/ EvdevKeyEvent
    \/ BridgeRecv
    \/ BridgeSend
    \/ StdinLine
    \/ StdinError
    \/ CtrlC
    \/ MainLoopTest
    \/ MainTimeout
    \/ MainRecv
    \/ TaskFinish
    \/ AudioCallback

Spec == Init /\ [][Next]_vars

\* ------------------------------------------- the recorder and a free client
ApiStart ==
    /\ calls < MaxCalls
    /\ calls' = calls + 1
    /\ \E dev \in Devices \cup {NoDevice}, fail \in StartFailures : RecorderStart(dev, fail)
    /\ UNCHANGED <<listenerVars, bridgeVars, mainVars, auxVars>>

ApiStop ==
    /\ calls < MaxCalls
    /\ calls' = calls + 1
    /\ \E pauseFails \in BOOLEAN : RecorderStop(pauseFails)
    /\ UNCHANGED <<listenerVars, bridgeVars, mainVars, auxVars>>

ApiIsRecording ==
    /\ calls < MaxCalls
    /\ calls' = calls + 1
    /\ RecorderIsRecording
    /\ UNCHANGED <<listenerVars, bridgeVars, mainVars, auxVars>>

EngineCallback ==
    /\ stream /\ stream_thread = "running"
    /\ callbacks < MaxEngineCallbacks
    /\ \E len \in ChunkSizes : InputCallback(len)
    /\ UNCHANGED <<listenerVars, bridgeVars, mainVars, calls, auxVars>>

\* err_fn: what the error callback of the stream does to the thread of the
\* audio subsystem that calls it.
ErrFn == "panicked"

\* The audio subsystem reports a fault on the open stream.
StreamError ==
    /\ stream /\ stream_thread = "running"
    /\ stream_thread' = ErrFn
    /\ UNCHANGED <<max_time, max_frames, frames, stream, stream_config,
                   is_recording_flag, delivered, callbacks, everStarted, lastCall>>
    /\ UNCHANGED <<listenerVars, bridgeVars, mainVars, calls, auxVars>>

EngineNext ==
    \/ ApiStart
    \/ ApiStop
    \/ ApiIsRecording
    \/ EngineCallback
    \/ StreamError

EngineSpec == Init /\ [][EngineNext]_vars

\* ------------------------------------------------------------ the encoder
EncoderSpec == Init /\ [][SaveCall]_vars

\* ------------------------------------------- evdev thread: device polling
\* The device side of the evdev thread; what the events it reads contain is
\* the subject of EvdevKey. A descriptor is named by the path it was opened on.
otherThanPoll == <<listenerVars, bridgeVars, mainVars, recorderVars, calls,
                   encoderVars, pairVars, restVars>>

\* open_evdev_device: of the given paths, those whose open() is not refused
\* with PermissionDenied.
OpenableIgnoresPermission(paths) == paths
Openable(paths) == paths \ unreadable

\* update_devices on the map `known`: scanOk is whether list_input_devices
\* succeeds, opened the new paths open_evdev_device returns a file for (the
\* others are skipped with a warning).
UpdateDevices(known, scanOk, opened) ==
    IF ~scanOk
    THEN \* `?` returns before the poll set is rebuilt
         /\ devices' = known
         /\ stale' = (stale \cap poll_fds) \cup (poll_fds \ known)
         /\ denied' = {}
         /\ UNCHANGED poll_fds
    ELSE /\ devices' = (known \cap present) \cup opened
         /\ poll_fds' = (known \cap present) \cup opened
         /\ stale' = stale \cap known \cap present
         /\ denied' = (present \ known) \cap unreadable

\* A device appears or disappears under /dev/input.
Plug ==
    /\ \E p \in DevicePaths \ present : present' = present \cup {p}
    /\ UNCHANGED <<devices, poll_fds, stale, ready, pollPc, staleAtPoll, staleRead,
                   unreadable, denied>>
    /\ UNCHANGED otherThanPoll

Unplug ==
    /\ \E p \in present :
        /\ present' = present \ {p}
        /\ stale' = stale \cup ({p} \cap (devices \cup poll_fds))
    /\ UNCHANGED <<devices, poll_fds, ready, pollPc, staleAtPoll, staleRead,
                   unreadable, denied>>
    /\ UNCHANGED otherThanPoll

\* "Initial device scan": an error ends the thread.
InitialScan ==
    /\ pollPc = "scan"
    /\ \E scanOk \in BOOLEAN, opened \in SUBSET Openable(present \ devices) :
        /\ UpdateDevices(devices, scanOk, opened)
        /\ pollPc' = IF scanOk THEN "test" ELSE "done"
    /\ UNCHANGED <<present, ready, staleAtPoll, staleRead, unreadable>>
    /\ UNCHANGED otherThanPoll

\* while IS_RUNNING.load(..)
LoopRunningIgnoresFlag(flag) == TRUE
LoopRunning(flag) == flag

\* if poll_fds.is_empty(): the thread goes to its one-second sleep and rescan.
OnEmptyPollSetReturn == "done"
OnEmptyPollSet == "sleep"

\* The loop test and the poll_fds.is_empty() test; with descriptors to wait
\* on, poll() is called.
PollLoopTest ==
    /\ pollPc = "test"
    /\ IF ~LoopRunning(IS_RUNNING)
       THEN pollPc' = "done" /\ UNCHANGED staleAtPoll
       ELSE IF poll_fds = {}
            THEN pollPc' = OnEmptyPollSet /\ UNCHANGED staleAtPoll
            ELSE pollPc' = "poll" /\ staleAtPoll' = poll_fds \cap stale
    /\ UNCHANGED <<present, devices, poll_fds, stale, ready, staleRead, unreadable, denied>>
    /\ UNCHANGED otherThanPoll

\* No descriptors: sleep one second, rescan, continue.
PollSleepRescan ==
    /\ pollPc = "sleep"
    /\ \E scanOk \in BOOLEAN, opened \in SUBSET Openable(present \ devices) :
        UpdateDevices(devices, scanOk, opened)
    /\ pollPc' = "test"
    /\ UNCHANGED <<present, ready, staleAtPoll, staleRead, unreadable>>
    /\ UNCHANGED otherThanPoll

\* poll(.., 200) returns: an error or a timeout continues the loop; otherwise
\* the descriptors with POLLIN set are processed (a vanished device may
\* report POLLIN or only POLLHUP/POLLERR).
PollWait ==
    /\ pollPc = "poll"
    /\ \E outcome \in {"error", "timeout", "events"} :
        IF outcome = "events"
        THEN /\ pollPc' = "process"
             /\ \E r \in SUBSET poll_fds : ready' = r
        ELSE /\ pollPc' = "test"
             /\ UNCHANGED ready
    /\ UNCHANGED <<present, devices, poll_fds, stale, staleAtPoll, staleRead,
                   unreadable, denied>>
    /\ UNCHANGED otherThanPoll

\* The loop over the ready descriptors: each is read; failed are the reads
\* that return an error other than WouldBlock/Interrupted (every read of a
\* vanished device does), the last of them is device_to_remove; sawEvents is
\* whether some read returned events, whose loop returns once IS_RUNNING is
\* false. Then the removal and the rescan.
ProcessReady ==
    /\ pollPc = "process"
    /\ staleRead' = (staleRead \/ (ready \cap devices \cap staleAtPoll # {}))
    /\ ready' = {}
    /\ \E failed \in SUBSET (ready \cap devices), sawEvents \in BOOLEAN :
        /\ ready \cap devices \cap stale \subseteq failed
        /\ sawEvents => (ready \cap devices) \ failed # {}
        /\ IF sawEvents /\ ~IS_RUNNING
           THEN /\ pollPc' = "done"
                /\ UNCHANGED <<devices, poll_fds, stale, denied>>
           ELSE /\ pollPc' = "test"
                /\ IF failed = {}
                   THEN UNCHANGED <<devices, poll_fds, stale, denied>>
                   ELSE \E device_to_remove \in failed :
                        \E scanOk \in BOOLEAN,
                           opened \in SUBSET Openable(present \ (devices \ {device_to_remove})) :
                            UpdateDevices(devices \ {device_to_remove}, scanOk, opened)
    /\ UNCHANGED <<present, staleAtPoll, unreadable>>
    /\ UNCHANGED otherThanPoll

DeviceNext ==
    \/ Plug
    \/ Unplug
    \/ InitialScan
    \/ PollLoopTest
    \/ PollSleepRescan
    \/ PollWait
    \/ ProcessReady
    \/ CtrlC

DeviceSpec == Init /\ [][DeviceNext]_vars

\* ------------------------------------------------------------- shutdown
\* The two loops that test IS_RUNNING, with the toggles of the stdin task.
\* Each loop takes its next step: the select! of the control loop completes
\* (its sleep branch after 50 ms), poll() returns within 200 ms, the sleeps
\* of the evdev thread end.
ShutdownNext ==
    \/ DeviceNext
    \/ StdinLine
    \/ MainLoopTest
    \/ MainTimeout
    \/ MainRecv

ShutdownSpec ==
    /\ Init /\ [][ShutdownNext]_vars
    /\ WF_vars(MainLoopTest) /\ WF_vars(MainTimeout)
    /\ WF_vars(InitialScan) /\ WF_vars(PollLoopTest) /\ WF_vars(PollSleepRescan)
    /\ WF_vars(PollWait) /\ WF_vars(ProcessReady)

\* The permissions of a device node change (udev rules, group membership).
Chmod ==
    /\ \E p \in DevicePaths :
        unreadable' = IF p \in unreadable THEN unreadable \ {p} ELSE unreadable \cup {p}
    /\ UNCHANGED <<present, devices, poll_fds, stale, ready, pollPc, staleAtPoll,
                   staleRead, denied>>
    /\ UNCHANGED otherThanPoll

PermissionNext ==
    \/ DeviceNext
    \/ Chmod

PermissionSpec == Init /\ [][PermissionNext]_vars

\* The evdev thread alone, taking its next step whenever it has one: the
\* sleeps end and poll() returns within its timeout.
DeviceFairSpec ==
    /\ DeviceSpec
    /\ WF_vars(InitialScan) /\ WF_vars(PollLoopTest) /\ WF_vars(PollSleepRescan)
    /\ WF_vars(PollWait) /\ WF_vars(ProcessReady)

\* --------------------------------- the listener with its key-event history
ObservedRdevKeyEvent ==
    /\ ListenerReady("rdev")
    /\ \E kind \in KeyKinds, key \in Keys :
        /\ RdevKey(kind, key)
        /\ afterModRelease' = HistoryAfter(kind, key)
        /\ holdEmits' = HoldEmitsAfter(kind, key, emitted' # emitted)

ObservedEvdevKeyEvent ==
    /\ ListenerReady("evdev")
    /\ \E kind \in KeyKinds, key \in Keys :
        /\ EvdevKey(kind, key)
        /\ afterModRelease' = HistoryAfter(kind, key)
        /\ holdEmits' = HoldEmitsAfter(kind, key, emitted' # emitted)

\* rdev::listen returns an error (at registration or later): it is logged
\* and the `while IS_RUNNING` loop of listen_rdev calls listen again.
RdevListenError ==
    /\ Alive /\ backend = "rdev" /\ listenerPc = "listening"
    /\ listenErrors < MaxListenErrors
    /\ listenErrors' = listenErrors + 1
    /\ IF IS_RUNNING
       THEN listenCalls' = listenCalls + 1 /\ UNCHANGED listenerPc
       ELSE listenerPc' = "done" /\ UNCHANGED listenCalls
    /\ UNCHANGED <<backend, physDown, state, modifier_pressed, emitted,
                   holdEmits, afterModRelease>>
    /\ UNCHANGED <<bridgeVars, mainVars, recorderVars, calls, auxVars>>

ListenerNext ==
    \/ ObservedRdevKeyEvent
    \/ ObservedEvdevKeyEvent
    \/ RdevListenError
    \/ BridgeRecv
    \/ BridgeSend
    \/ CtrlC

ListenerSpec == Init /\ [][ListenerNext]_vars

\* ------------------------------------- both matchers on the same key events
Count(b) == IF b THEN 1 ELSE 0

\* One key event given to the rdev closure and to the evdev matching.
BothBackendsKeyEvent ==
    /\ rdevToggles < MaxToggles /\ evdevToggles < MaxToggles
    /\ \E kind \in KeyKinds, key \in Keys :
        /\ Possible(kind, key)
        /\ physDown' = PhysAfter(kind, key)
        /\ LET r == RdevCallback(state, RdevType(kind), key)
               w == EvdevMatch(modifier_pressed, key, EvdevValue(kind))
           IN /\ state' = [mod_pressed |-> r.mod_pressed, key_pressed |-> r.key_pressed]
              /\ modifier_pressed' = w.modifier_pressed
              /\ rdevToggles' = rdevToggles + Count(r.emit)
              /\ evdevToggles' = evdevToggles + Count(w.emit)
    /\ UNCHANGED <<backend, listenerPc, emitted, listenCalls, listenErrors,
                   holdEmits, afterModRelease>>
    /\ UNCHANGED <<bridgeVars, mainVars, recorderVars, calls, encoderVars, pollVars,
                   restVars>>

EquivSpec == Init /\ [][BothBackendsKeyEvent]_vars

\* ------------------------------------------------------ format negotiation
\* start() on a default input device that advertises the formats in dev. The
\* formats are recorded when start() gets as far as asking for them.
NegotiatingStart ==
    /\ calls < MaxCalls
    /\ calls' = calls + 1
    /\ \E dev \in SUBSET FormatPool, fail \in StartFailures \ {"device"} :
           /\ RecorderStart(dev, fail)
           /\ advertised' = IF is_recording_flag THEN advertised ELSE dev
    /\ UNCHANGED <<listenerVars, bridgeVars, mainVars, encoderVars, pollVars, pairVars,
                   lockVars, processVars, retryVars, stdinVars, widthVars, o3Vars>>

NegotiateNext ==
    \/ NegotiatingStart
    \/ ApiStop

NegotiateSpec == Init /\ [][NegotiateNext]_vars

\* ----------------------------------------- the recorder's mutexes, by step
\* The control thread (the owner of the AudioRecorder) against one invocation
\* of the input callback on the audio subsystem's thread. A MutexGuard that
\* is a temporary of one expression is taken and released in one step by the
\* callback; the control thread's are two steps, so that the states in which
\* it holds a mutex are visible. Dropping the stream handle returns once the
\* running invocation of its callback has returned.
otherThanLock == <<listenerVars, bridgeVars, mainVars, encoderVars, pollVars, pairVars,
                   negotiateVars, processVars, retryVars, stdinVars, widthVars, o3Vars>>

\* Dropping the handle of a stream whose callback is at pc: possible once the
\* invocation has returned.
DropReturnsAtOnce(pc) == TRUE
DropWaits(pc) == pc = "idle"

\* The MutexGuard made in the condition of an `if` is a temporary of the
\* condition: it is dropped before the block is entered, and the mutex has no
\* holder there.
GuardKeptInBlock(holder) == holder
GuardAfterCondition(holder) == "none"

\* The control thread enters start(), stop() or is_recording().
CtlCall ==
    /\ ctlPc = "idle"
    /\ calls < MaxCalls
    /\ calls' = calls + 1
    /\ \E entry \in {"start_isrec", "stop_flag", "isrec"} : ctlPc' = entry
    /\ UNCHANGED <<recorderVars, cbPc, cbLen, flagLock, framesLock, signalled, lateAppend>>
    /\ UNCHANGED otherThanLock

\* self.is_recording_flag.lock()
CtlLockFlag ==
    /\ ctlPc \in {"start_isrec", "stop_flag", "isrec", "start_flag"}
    /\ flagLock = "none"
    /\ flagLock' = "ctl"
    /\ UNCHANGED <<recorderVars, calls, ctlPc, cbPc, cbLen, framesLock, signalled, lateAppend>>
    /\ UNCHANGED otherThanLock

\* self.frames.lock()
CtlLockFrames ==
    /\ ctlPc \in {"start_clear", "stop_frames"}
    /\ framesLock = "none"
    /\ framesLock' = "ctl"
    /\ UNCHANGED <<recorderVars, calls, ctlPc, cbPc, cbLen, flagLock, signalled, lateAppend>>
    /\ UNCHANGED otherThanLock

\* start(): if self.is_recording() { return Ok(()) }
StartIsRecording ==
    /\ ctlPc = "start_isrec" /\ flagLock = "ctl"
    /\ flagLock' = "none"
    /\ everStarted' = TRUE
    /\ IF is_recording_flag
       THEN ctlPc' = "idle" /\ lastCall' = Call("start", "Ok", NoConfig, <<>>)
       ELSE ctlPc' = "start_clear" /\ UNCHANGED lastCall
    /\ UNCHANGED <<max_time, max_frames, frames, stream, stream_config, is_recording_flag,
                   delivered, callbacks, stream_thread>>
    /\ UNCHANGED <<calls, cbPc, cbLen, framesLock, signalled, lateAppend>>
    /\ UNCHANGED otherThanLock

\* start(): self.frames.lock().clear()
StartClear ==
    /\ ctlPc = "start_clear" /\ framesLock = "ctl"
    /\ frames' = <<>>
    /\ framesLock' = "none"
    /\ ctlPc' = "start_open"
    /\ UNCHANGED <<max_time, max_frames, stream, stream_config, is_recording_flag,
                   delivered, callbacks, stream_thread, everStarted, lastCall>>
    /\ UNCHANGED <<calls, cbPc, cbLen, flagLock, signalled, lateAppend>>
    /\ UNCHANGED otherThanLock

\* start(): device, negotiation, build_input_stream, play, self.stream =
\* Some(stream); the assignment drops the handle of an earlier stream.
StartOpen ==
    /\ ctlPc = "start_open"
    /\ \E dev \in Devices \cup {NoDevice}, fail \in StartFailures :
        IF dev = NoDevice \/ fail = "device" \/ Candidates(dev) = {} \/ fail = "build"
        THEN /\ lastCall' = Call("start", "Err", NoConfig, <<>>)
             /\ ctlPc' = "idle"
             /\ UNCHANGED <<stream, stream_config, delivered, callbacks, stream_thread,
                            signalled>>
        ELSE /\ stream_config' = Negotiate(dev)
             /\ IF fail = "play"
                THEN /\ lastCall' = Call("start", "Err", NoConfig, <<>>)
                     /\ ctlPc' = "idle"
                     /\ UNCHANGED <<stream, delivered, callbacks, stream_thread, signalled>>
                ELSE /\ stream => DropWaits(cbPc)
                     /\ stream' = TRUE
                     /\ stream_thread' = "running"
                     /\ delivered' = 0
                     /\ callbacks' = 0
                     /\ signalled' = FALSE
                     /\ ctlPc' = "start_flag"
                     /\ UNCHANGED lastCall
    /\ UNCHANGED <<max_time, max_frames, frames, is_recording_flag, everStarted>>
    /\ UNCHANGED <<calls, cbPc, cbLen, flagLock, framesLock, lateAppend>>
    /\ UNCHANGED otherThanLock

\* start(): *self.is_recording_flag.lock() = true
StartSetFlag ==
    /\ ctlPc = "start_flag" /\ flagLock = "ctl"
    /\ is_recording_flag' = TRUE
    /\ flagLock' = "none"
    /\ lastCall' = Call("start", "Ok", NoConfig, <<>>)
    /\ ctlPc' = "idle"
    /\ UNCHANGED <<max_time, max_frames, frames, stream, stream_config, delivered,
                   callbacks, stream_thread, everStarted>>
    /\ UNCHANGED <<calls, cbPc, cbLen, framesLock, signalled, lateAppend>>
    /\ UNCHANGED otherThanLock

\* stop(): *self.is_recording_flag.lock() = false
StopClearFlag ==
    /\ ctlPc = "stop_flag" /\ flagLock = "ctl"
    /\ is_recording_flag' = FALSE
    /\ flagLock' = "none"
    /\ signalled' = TRUE
    /\ ctlPc' = "stop_take"
    /\ UNCHANGED <<max_time, max_frames, frames, stream, stream_config, delivered,
                   callbacks, stream_thread, everStarted, lastCall>>
    /\ UNCHANGED <<calls, cbPc, cbLen, framesLock, lateAppend>>
    /\ UNCHANGED otherThanLock

\* stop(): self.stream.take(), pause()?, drop(stream). The handle is dropped
\* on both ways out, which waits for the running invocation of the callback.
StopTake ==
    /\ ctlPc = "stop_take"
    /\ IF stream
       THEN /\ DropWaits(cbPc)
            /\ \E pauseFails \in BOOLEAN :
                /\ stream' = StreamAfterStop(stream, pauseFails)
                /\ stream_thread' = IF stream' THEN stream_thread ELSE "none"
                /\ IF pauseFails
                   THEN ctlPc' = "idle" /\ lastCall' = Call("stop", "Err", NoConfig, <<>>)
                   ELSE ctlPc' = "stop_frames" /\ UNCHANGED lastCall
       ELSE /\ ctlPc' = "stop_frames"
            /\ UNCHANGED <<stream, stream_thread, lastCall>>
    /\ UNCHANGED <<max_time, max_frames, frames, stream_config, is_recording_flag,
                   delivered, callbacks, everStarted>>
    /\ UNCHANGED <<calls, cbPc, cbLen, flagLock, framesLock, signalled, lateAppend>>
    /\ UNCHANGED otherThanLock

\* stop(): the result, computed from the buffer under the frames mutex.
StopRead ==
    /\ ctlPc = "stop_frames" /\ framesLock = "ctl"
    /\ lastCall' = StopResult(frames, stream_config)
    /\ framesLock' = "none"
    /\ ctlPc' = "idle"
    /\ UNCHANGED <<max_time, max_frames, frames, stream, stream_config, is_recording_flag,
                   delivered, callbacks, stream_thread, everStarted>>
    /\ UNCHANGED <<calls, cbPc, cbLen, flagLock, signalled, lateAppend>>
    /\ UNCHANGED otherThanLock

\* is_recording(): *self.is_recording_flag.lock()
IsRecordingRead ==
    /\ ctlPc = "isrec" /\ flagLock = "ctl"
    /\ lastCall' = Call("is_recording", IF is_recording_flag THEN "True" ELSE "False",
                        NoConfig, <<>>)
    /\ flagLock' = "none"
    /\ ctlPc' = "idle"
    /\ UNCHANGED <<max_time, max_frames, frames, stream, stream_config, is_recording_flag,
                   delivered, callbacks, stream_thread, everStarted>>
    /\ UNCHANGED <<calls, cbPc, cbLen, framesLock, signalled, lateAppend>>
    /\ UNCHANGED otherThanLock

\* The audio subsystem invokes the callback of the open stream with a chunk.
CbBegin ==
    /\ stream /\ stream_thread = "running"
    /\ cbPc = "idle"
    /\ callbacks < MaxEngineCallbacks
    /\ \E len \in ChunkSizes :
        /\ cbLen' = len
        /\ delivered' = delivered + len
    /\ callbacks' = callbacks + 1
    /\ cbPc' = "flag1"
    /\ UNCHANGED <<max_time, max_frames, frames, stream, stream_config, is_recording_flag,
                   stream_thread, everStarted, lastCall>>
    /\ UNCHANGED <<calls, ctlPc, flagLock, framesLock, signalled, lateAppend>>
    /\ UNCHANGED otherThanLock

\* if !is_recording_flag_callback.lock().expect(..).clone() { return; }
CbCheckFlag ==
    /\ cbPc = "flag1" /\ flagLock = "none"
    /\ IF is_recording_flag
       THEN cbPc' = "frames" /\ UNCHANGED cbLen
       ELSE cbPc' = "idle" /\ cbLen' = 0
    /\ UNCHANGED <<recorderVars, calls, ctlPc, flagLock, framesLock, signalled, lateAppend>>
    /\ UNCHANGED otherThanLock

\* let mut frame_buffer = shared_frames.lock().expect(..): held to the end of
\* the closure.
CbLockFrames ==
    /\ cbPc = "frames" /\ framesLock = "none"
    /\ framesLock' = "cb"
    /\ cbPc' = "body"
    /\ UNCHANGED <<recorderVars, calls, ctlPc, cbLen, flagLock, signalled, lateAppend>>
    /\ UNCHANGED otherThanLock

\* The length test and, with room left, extend_from_slice and the return.
CbBody ==
    /\ cbPc = "body"
    /\ IF FramesLen(frames) >= max_frames
       THEN /\ cbPc' = "flag2"
            /\ UNCHANGED <<frames, framesLock, cbLen, lateAppend>>
       ELSE /\ frames' = Extend(frames, delivered - cbLen,
                                ElementsToAdd(cbLen, max_frames - FramesLen(frames)))
            /\ lateAppend' = (lateAppend \/ signalled)
            /\ framesLock' = "none"
            /\ cbPc' = "idle"
            /\ cbLen' = 0
    /\ UNCHANGED <<max_time, max_frames, stream, stream_config, is_recording_flag,
                   delivered, callbacks, stream_thread, everStarted, lastCall>>
    /\ UNCHANGED <<calls, ctlPc, flagLock, signalled>>
    /\ UNCHANGED otherThanLock

\* Buffer full: if *is_recording_flag_callback.lock().expect(..) { .. }
CbCapRead ==
    /\ cbPc = "flag2" /\ flagLock = "none"
    /\ IF is_recording_flag
       THEN /\ cbPc' = "flag3"
            /\ flagLock' = GuardAfterCondition("cb")
            /\ UNCHANGED <<framesLock, cbLen>>
       ELSE cbPc' = "idle" /\ framesLock' = "none" /\ cbLen' = 0 /\ UNCHANGED flagLock
    /\ UNCHANGED <<recorderVars, calls, ctlPc, signalled, lateAppend>>
    /\ UNCHANGED otherThanLock

\* Buffer full: *stop_recording_flag_callback.lock().expect(..) = false
CbCapWrite ==
    /\ cbPc = "flag3" /\ flagLock = "none"
    /\ is_recording_flag' = FALSE
    /\ framesLock' = "none"
    /\ cbPc' = "idle"
    /\ cbLen' = 0
    /\ UNCHANGED <<max_time, max_frames, frames, stream, stream_config, delivered,
                   callbacks, stream_thread, everStarted, lastCall>>
    /\ UNCHANGED <<calls, ctlPc, flagLock, signalled, lateAppend>>
    /\ UNCHANGED otherThanLock

LockNext ==
    \/ CtlCall
    \/ CtlLockFlag
    \/ CtlLockFrames
    \/ StartIsRecording
    \/ StartClear
    \/ StartOpen
    \/ StartSetFlag
    \/ StopClearFlag
    \/ StopTake
    \/ StopRead
    \/ IsRecordingRead
    \/ CbBegin
    \/ CbCheckFlag
    \/ CbLockFrames
    \/ CbBody
    \/ CbCapRead
    \/ CbCapWrite

LockSpec == Init /\ [][LockNext]_vars

\* The steps of a call in progress, and of a callback invocation in progress.
CtlProgress ==
    \/ CtlLockFlag
    \/ CtlLockFrames
    \/ StartIsRecording
    \/ StartClear
    \/ StartOpen
    \/ StartSetFlag
    \/ StopClearFlag
    \/ StopTake
    \/ StopRead
    \/ IsRecordingRead

CbProgress ==
    \/ CbCheckFlag
    \/ CbLockFrames
    \/ CbBody
    \/ CbCapRead
    \/ CbCapWrite

\* --------------------------------------------------- process_recorded_audio
\* A task as tokio::spawn leaves it: about to write file wav_path.
\*   pc            where the task is: "save", "transcribe", "output", "remove",
\*                 "done"
\*   encode        what save_f32_to_wav returned: "none" before the call
\*   transcription what the transcription function returned: "none" before
\*   requests      calls of a transcription function made by the task
\*   file          wav_path on disk: "none", "partial" or "complete"
\*   removes       calls of remove_file(&wav_path) made by the task
\*   removal       what remove_file returned: "none" before the call
NewJob == [pc |-> "save", encode |-> "none", transcription |-> "none",
           requests |-> 0, file |-> "none", removes |-> 0, removal |-> "none"]

\* The ToggleRecording handler of the control loop, with the spawn of the
\* stop branch kept as a task record.
JobsAfterStop(kind) == IF kind = "Data" THEN Append(jobs, NewJob) ELSE jobs

ToggleHandled ==
    /\ Alive
    /\ calls < MaxCalls
    /\ calls' = calls + 1
    /\ app_is_recording' = NextRecording(app_is_recording)
    /\ IF app_is_recording'
       THEN /\ \E dev \in Devices \cup {NoDevice}, fail \in StartFailures :
                 RecorderStart(dev, fail)
            /\ mainPc' = IF AfterStart(lastCall'.kind) = "exited" THEN "exited" ELSE mainPc
            /\ UNCHANGED jobs
       ELSE /\ \E pauseFails \in BOOLEAN : RecorderStop(pauseFails)
            /\ jobs' = JobsAfterStop(lastCall'.kind)
            /\ UNCHANGED mainPc
    /\ UNCHANGED <<IS_RUNNING, consumed, tasks>>
    /\ UNCHANGED <<listenerVars, bridgeVars, encoderVars, pollVars, pairVars,
                   negotiateVars, lockVars, retryVars, stdinVars, widthVars, o3Vars>>

\* The match on the result of save_f32_to_wav: Ok goes on to the API call, Err
\* logs and leaves the function.
AfterSaveAlwaysTranscribes(result) == "transcribe"
AfterSave(result) == IF result = "Ok" THEN "transcribe" ELSE "done"

\* After the match on transcription_result: step 4 follows every arm.
AfterTranscriptionOnlyOnText(result) == IF result = "Text" THEN "output" ELSE "done"
AfterTranscription(result) == IF result = "Text" THEN "output" ELSE "remove"

\* What a call of save_f32_to_wav leaves at wav_path: the whole file on Ok;
\* nothing, or the part written so far, on Err.
FilesAfterSave(result) == IF result = "Ok" THEN {"complete"} ELSE {"none", "partial"}

\* remove_file(&wav_path): Ok removes the file, Err is logged and leaves it.
FileAfterRemove(file, result) == IF result = "Ok" THEN "none" ELSE file

JobStep(i, new) ==
    /\ jobs' = [jobs EXCEPT ![i] = new]
    /\ UNCHANGED <<listenerVars, bridgeVars, mainVars, recorderVars, calls,
                   encoderVars, pollVars, pairVars, negotiateVars, lockVars,
                   retryVars, stdinVars, widthVars, o3Vars>>

\* 1. Save to WAV
JobSave ==
    \E i \in 1..Len(jobs) :
        /\ jobs[i].pc = "save"
        /\ \E result \in {"Ok", "Err"} : \E file \in FilesAfterSave(result) :
               JobStep(i, [jobs[i] EXCEPT !.encode = result, !.file = file,
                                          !.pc = AfterSave(result)])

\* 2. Transcribe using API
JobTranscribe ==
    \E i \in 1..Len(jobs) :
        /\ jobs[i].pc = "transcribe"
        /\ \E result \in {"Text", "Empty", "Err"} :
               JobStep(i, [jobs[i] EXCEPT !.transcription = result,
                                          !.requests = @ + 1,
                                          !.pc = AfterTranscription(result)])

\* 3. Process Output; its error is logged
JobOutput ==
    \E i \in 1..Len(jobs) :
        /\ jobs[i].pc = "output"
        /\ JobStep(i, [jobs[i] EXCEPT !.pc = "remove"])

\* 4. Clean up temporary WAV file
JobRemove ==
    \E i \in 1..Len(jobs) :
        /\ jobs[i].pc = "remove"
        /\ \E result \in {"Ok", "Err"} :
               JobStep(i, [jobs[i] EXCEPT !.file = FileAfterRemove(@, result),
                                          !.removes = @ + 1,
                                          !.removal = result,
                                          !.pc = "done"])

ProcessNext ==
    \/ ToggleHandled
    \/ EngineCallback
    \/ JobSave
    \/ JobTranscribe
    \/ JobOutput
    \/ JobRemove

ProcessSpec == Init /\ [][ProcessNext]_vars

\* ---------------------------------------------- the transcription functions
\* transcribe_replicate (its create loop), transcribe_elevenlabs and
\* transcribe_openai share one retry loop.
Services == {"replicate", "elevenlabs", "openai"}

\* Values of config.retries explored.
RetryChoices == 0..MaxRetries

\* for attempt in 0..=config.retries
AttemptsOneMore(retries) == 0..(retries + 1)
Attempts(retries) == 0..retries

\* What one iteration of the loop can meet. The two upload functions open the
\* audio file in every iteration; transcribe_replicate reads it before the loop.
Statuses == {"success", "429", "5xx", "other_status"}
TransportErrors == {"timeout", "connect", "other_error"}
Outcomes(service) ==
    Statuses \cup TransportErrors \cup {"bad_json"}
        \cup (IF service = "replicate" THEN {} ELSE {"open_failed"})

\* An iteration that sent its HTTP request.
Sent(outcome) == outcome # "open_failed"

\* The match on the response: what the iteration does next. "bad_json" is a
\* success status whose body does not parse (`?` on resp.json()).
OnOutcomeRetriesAnyStatus(service, outcome, n, retries) ==
    IF outcome \in {"429", "5xx", "other_status"} THEN "continue"
    ELSE IF outcome = "success" THEN "Ok" ELSE "ErrRequest"
OnOutcome(service, outcome, n, retries) ==
    CASE outcome = "open_failed" -> "ErrOpen"
      [] outcome = "success" -> IF service = "replicate" THEN "Created" ELSE "Ok"
      [] outcome = "bad_json" -> "ErrParse"
      [] outcome \in {"429", "5xx"} -> "continue"
      [] outcome = "other_status" -> "ErrStatus"
      [] outcome \in {"timeout", "connect"} ->
            IF n < retries THEN "continue" ELSE "ErrRequest"
      [] OTHER -> "ErrRequest"

otherThanRetry == <<listenerVars, bridgeVars, mainVars, recorderVars, calls,
                    encoderVars, pollVars, pairVars, negotiateVars, lockVars,
                    processVars, stdinVars, widthVars, o3Vars>>

\* A transcription function is called and reaches its retry loop.
TranscribeCall ==
    /\ api.pc \in {"idle", "done"}
    /\ \E service \in Services, retries \in RetryChoices :
        api' = [NoCall EXCEPT !.service = service, !.retries = retries, !.pc = "loop"]
    /\ UNCHANGED otherThanRetry

\* One iteration of the retry loop.
TranscribeAttempt ==
    /\ api.pc = "loop"
    /\ api.attempt \in Attempts(api.retries)
    /\ \E outcome \in Outcomes(api.service) :
        LET next == OnOutcome(api.service, outcome, api.attempt, api.retries)
            met == [api EXCEPT !.trace = Append(@, outcome),
                               !.attempts = IF Sent(outcome) THEN @ + 1 ELSE @]
        IN api' = IF next = "continue"
                  THEN [met EXCEPT !.attempt = @ + 1]
                  ELSE [met EXCEPT !.pc = "done", !.result = next]
    /\ UNCHANGED otherThanRetry

\* The loop ends with every iteration used: "failed after {} retries".
TranscribeExhausted ==
    /\ api.pc = "loop"
    /\ api.attempt \notin Attempts(api.retries)
    /\ api' = [api EXCEPT !.pc = "done", !.result = "ErrExhausted"]
    /\ UNCHANGED otherThanRetry

RetryNext ==
    \/ TranscribeCall
    \/ TranscribeAttempt
    \/ TranscribeExhausted

RetrySpec == Init /\ [][RetryNext]_vars

\* ------------------------------------------- the stdin task and its terminal
otherThanStdin == <<listenerVars, mainVars, recorderVars, calls, encoderVars,
                    pollVars, pairVars, negotiateVars, lockVars, processVars,
                    retryVars, widthVars, o3Vars>>

\* The operator enters a line.
OperatorLine ==
    /\ ~terminal.closed
    /\ terminal.typed < MaxTyped
    /\ terminal' = [terminal EXCEPT !.typed = @ + 1, !.unread = @ + 1]
    /\ UNCHANGED bridgeVars
    /\ UNCHANGED otherThanStdin

\* Stdin is closed (end of a pipe, Ctrl+D, a detached terminal).
OperatorCloses ==
    /\ ~terminal.closed
    /\ terminal' = [terminal EXCEPT !.closed = TRUE]
    /\ UNCHANGED bridgeVars
    /\ UNCHANGED otherThanStdin

\* One iteration of the task's loop: the IS_RUNNING test, read_line on a new
\* BufReader, and the Ok(_) arm of the match. read_line returns Ok with the
\* byte count of a line, or Ok(0) at end of file; it does not return while
\* stdin is open and empty. The reader takes `taken` lines from stdin, returns
\* the first and is dropped with the others.
StdinIteration ==
    /\ stdinPc = "reading"
    /\ IF ~IS_RUNNING
       THEN /\ stdinPc' = "done"
            /\ UNCHANGED <<hotkeyChan, stdinSent, terminal>>
       ELSE /\ terminal.unread > 0 \/ terminal.closed
            /\ \E taken \in (IF terminal.unread > 0 THEN 1..terminal.unread ELSE {0}) :
                  terminal' = [terminal EXCEPT !.unread = @ - taken]
            /\ stdinSent < MaxStdinSends
            /\ Len(hotkeyChan) < HOTKEY_CHANNEL_CAPACITY
            /\ hotkeyChan' = ChanSend(hotkeyChan, StdinEvent)
            /\ stdinSent' = stdinSent + 1
            /\ UNCHANGED stdinPc
    /\ UNCHANGED <<asyncChan, bridgeHeld, bridgePc>>
    /\ UNCHANGED otherThanStdin

\* read_line fails: the task ends.
StdinReadFails ==
    /\ stdinPc = "reading" /\ IS_RUNNING
    /\ stdinPc' = "done"
    /\ UNCHANGED <<asyncChan, bridgeHeld, bridgePc, hotkeyChan, stdinSent, stdinVars>>
    /\ UNCHANGED otherThanStdin

\* The control loop takes a toggle from the channel.
ToggleTaken ==
    /\ hotkeyChan # <<>>
    /\ hotkeyChan' = Tail(hotkeyChan)
    /\ consumed' = Append(consumed, Head(hotkeyChan))
    /\ UNCHANGED <<IS_RUNNING, mainPc, app_is_recording, tasks>>
    /\ UNCHANGED <<asyncChan, bridgeHeld, bridgePc, stdinPc, stdinSent, stdinVars>>
    /\ UNCHANGED <<listenerVars, recorderVars, calls, encoderVars, pollVars, pairVars,
                   negotiateVars, lockVars, processVars, retryVars, widthVars,
                   o3Vars>>

StdinNext ==
    \/ OperatorLine
    \/ OperatorCloses
    \/ StdinIteration
    \/ StdinReadFails
    \/ ToggleTaken
    \/ CtrlC

StdinSpec == Init /\ [][StdinNext]_vars

\* ------------------------------------- AudioRecorder::new at the width of u32
\* A u32 is kept as U32_LIMBS digits in base LIMB, least significant first,
\* so that no intermediate value of the model exceeds the range of its own
\* integers; a product of two u32 has twice as many digits.
LIMB == 256
U32_LIMBS == 4

\* The digits of n, 0 <= n < LIMB^U32_LIMBS.
RECURSIVE Digits(_, _)
Digits(n, k) == IF k = 0 THEN <<>> ELSE <<n % LIMB>> \o Digits(n \div LIMB, k - 1)

Zeros(k) == [i \in 1..k |-> 0]

\* Digit c (from 0) of the column sums of a * b.
RECURSIVE Column(_, _, _, _)
Column(a, b, c, i) ==
    IF i > c \/ i >= U32_LIMBS THEN 0
    ELSE (IF c - i < U32_LIMBS THEN a[i + 1] * b[c - i + 1] ELSE 0) + Column(a, b, c, i + 1)

\* The exact product of two u32, 2 * U32_LIMBS digits.
RECURSIVE MulFrom(_, _, _, _)
MulFrom(a, b, c, carry) ==
    IF c = 2 * U32_LIMBS THEN <<>>
    ELSE LET t == Column(a, b, c, 0) + carry
         IN <<t % LIMB>> \o MulFrom(a, b, c + 1, t \div LIMB)

WideMul(a, b) == MulFrom(a, b, 0, 0)

\* a * b on u32: the low digits of the product. The product overflows when a
\* high digit is not zero: a build with overflow checks panics there, a build
\* without them keeps the low digits.
Builds == {"checked", "unchecked"}
U32Mul(a, b, build) ==
    LET wide == WideMul(a, b)
        low == SubSeq(wide, 1, U32_LIMBS)
        overflow == SubSeq(wide, U32_LIMBS + 1, 2 * U32_LIMBS) # Zeros(U32_LIMBS)
    IN IF overflow /\ build = "checked"
       THEN [kind |-> "panic", value |-> Zeros(U32_LIMBS)]
       ELSE [kind |-> "Ok", value |-> low]

\* (.. ) as usize on a 64-bit target: the value, widened.
AsUsize(v) == v \o Zeros(U32_LIMBS)

\* new(max_time_seconds): MAX_SAMPLE_RATE * MAX_CHANNELS as u32 * max_time_seconds
\* at the width of its operands
NewU32(t, build) ==
    LET rate == U32Mul(Digits(MAX_SAMPLE_RATE, U32_LIMBS), Digits(MAX_CHANNELS, U32_LIMBS), build)
        all == U32Mul(rate.value, Digits(t, U32_LIMBS), build)
    IN IF rate.kind = "panic" \/ all.kind = "panic"
       THEN [arg |-> t, kind |-> "panic", max_frames |-> Zeros(2 * U32_LIMBS)]
       ELSE [arg |-> t, kind |-> "Ok", max_frames |-> AsUsize(all.value)]

\* Values of --max-time explored: short ones, the default, and those around
\* the largest whose frame count fits 32 bits.
MaxTimeArgs == 0..20 \cup {300} \cup 48640..48750 \cup {65536, 100000}

otherThanWidth == <<listenerVars, bridgeVars, mainVars, recorderVars, calls,
                    encoderVars, pollVars, pairVars, negotiateVars, lockVars,
                    processVars, retryVars, stdinVars, o3Vars>>

NewCall ==
    /\ \E t \in MaxTimeArgs, build \in Builds : created' = NewU32(t, build)
    /\ UNCHANGED otherThanWidth

WidthSpec == Init /\ [][NewCall]_vars

\* ------------------------------------------------------ the main-o3 variant
\* bounded::<()>(1)
O3_CHANNEL_CAPACITY == 1

otherThanO3 == <<listenerVars, bridgeVars, mainVars, recorderVars, calls,
                 encoderVars, pollVars, pairVars, negotiateVars, lockVars,
                 processVars, retryVars, stdinVars, widthVars>>

\* The listener callback matches the hotkey and calls toggle_tx.send(()): the
\* toggle goes into the channel at once when there is room, and the callback
\* waits in send() otherwise.
O3Toggle ==
    /\ o3.mainPc # "exited"
    /\ o3.listenerPc = "idle"
    /\ o3.toggles < MaxO3Toggles
    /\ LET seen == [o3 EXCEPT
                      !.toggles = @ + 1,
                      !.toggledDuring =
                          (@ \/ (o3.mainPc = "recording" /\ o3.elapsed < O3MaxSecs))]
       IN o3' = IF o3.chan < O3_CHANNEL_CAPACITY
                THEN [seen EXCEPT !.chan = @ + 1]
                ELSE [seen EXCEPT !.listenerPc = "sending"]
    /\ UNCHANGED otherThanO3

\* The blocked send() completes once the channel has room.
O3SendCompletes ==
    /\ o3.listenerPc = "sending"
    /\ o3.chan < O3_CHANNEL_CAPACITY
    /\ o3' = [o3 EXCEPT !.chan = @ + 1, !.listenerPc = "idle"]
    /\ UNCHANGED otherThanO3

\* recv(rx) in the select! of main: the swap, then the stop branch or the
\* start branch up to the wait inside rec.start(); startFails is an error of
\* the device calls before it, which `?` returns from main.
O3Recv ==
    /\ o3.mainPc = "select" /\ o3.chan > 0
    /\ IF o3.isRecording
       THEN o3' = [o3 EXCEPT !.chan = @ - 1, !.isRecording = ~@]
       ELSE \E startFails \in BOOLEAN :
               o3' = [o3 EXCEPT !.chan = @ - 1,
                                !.isRecording = TRUE,
                                !.mainPc = IF startFails THEN "exited" ELSE "recording",
                                !.elapsed = 0,
                                !.toggledDuring = FALSE]
    /\ UNCHANGED otherThanO3

\* A second passes while Recorder::start waits.
O3Second ==
    /\ o3.mainPc = "recording"
    /\ o3.elapsed < O3MaxSecs
    /\ o3' = [o3 EXCEPT !.elapsed = @ + 1]
    /\ UNCHANGED otherThanO3

\* The wait ends: while IS_RECORDING.load(..) { if elapsed >= max_secs { break }
\* sleep(50 ms) }; then drop(stream) and, back in main, IS_RECORDING = false.
\* IS_RECORDING is written by this thread only, so it is still true here.
O3WaitEnds ==
    /\ o3.mainPc = "recording"
    /\ ~o3.isRecording \/ o3.elapsed >= O3MaxSecs
    /\ o3' = [o3 EXCEPT !.endedAt = o3.elapsed, !.isRecording = FALSE,
                        !.mainPc = "processing"]
    /\ UNCHANGED otherThanO3

\* write_wav, transcribe, output_text, each with `?`.
O3Process ==
    /\ o3.mainPc = "processing"
    /\ \E ok \in BOOLEAN :
          o3' = [o3 EXCEPT !.mainPc = IF ok THEN "select" ELSE "exited"]
    /\ UNCHANGED otherThanO3

O3Next ==
    \/ O3Toggle
    \/ O3SendCompletes
    \/ O3Recv
    \/ O3Second
    \/ O3WaitEnds
    \/ O3Process

O3Spec == Init /\ [][O3Next]_vars

\* =================================================================== claims
\* The first n samples delivered in a session, as a frame buffer.
FirstDelivered(n) == IF n = 0 THEN <<>> ELSE << <<0, n>> >>

\* C1: in every reachable state the buffer never holds more than max_frames
\* samples, and while a session is capturing it holds exactly the first
\* min(delivered, max_frames) samples delivered: an overflowing chunk is cut
\* to the space left and later chunks add nothing.
C1_BufferWithinCapacity ==
    /\ FramesLen(frames) <= max_frames
    /\ (stream /\ is_recording_flag
            => frames = FirstDelivered(Min(delivered, max_frames)))

\* C1 witness: a chunk was cut: more was delivered than fits, the buffer is full.
C1_Witness_ChunkTruncated ==
    /\ stream /\ is_recording_flag
    /\ max_frames > 0
    /\ delivered > max_frames
    /\ FramesLen(frames) = max_frames

\* C2: after N consumed toggle events, starting from Idle, the orchestrator's
\* state (AppState.is_recording) is Recording iff N is odd.
C2_PureAlternation ==
    app_is_recording <=> (Len(consumed) % 2 = 1)

\* C2 witness: three toggles were consumed and the loop is still running.
C2_Witness_ThreeToggles ==
    Len(consumed) = 3 /\ app_is_recording /\ Alive

\* C3 (as claimed; refuted by the evdev backend): while the target key and
\* a modifier key are both held without interruption, the listener emits at
\* most one toggle: press and repeat notifications for the held target key
\* emit no further one.
C3_OneTogglePerPhysicalPress ==
    holdEmits <= 1

\* C4: once every modifier key has been released while the target key was
\* down, no toggle is emitted until a modifier key is pressed again, however
\* the target key is pressed or repeated meanwhile.
C4_NoToggleAfterModifierRelease ==
    [][afterModRelease # "none" => emitted' = emitted]_vars

\* C4 witness: the target key was pressed again after the modifier release,
\* with the modifier still up, in a listener that had emitted before.
C4_Witness_TargetRepressed ==
    /\ afterModRelease = "repressed"
    /\ TargetKey \in physDown
    /\ emitted = 1
    /\ listenerPc = "listening" /\ IS_RUNNING

\* The toggle events of the listener (ids 1, 2, ..) among those of a sequence.
IsListenerEvent(ev) == ev # StdinEvent
ListenerEvents(seq) == SelectSeq(seq, IsListenerEvent)
Ids(n) == [i \in 1..n |-> i]

\* C5: the listener's toggle events reach the control loop exactly once and in
\* the order emitted: what was consumed is a prefix of what was emitted, and
\* while the process is running every emitted event is either consumed or
\* still on its way (listener channel, bridge task, control loop channel), in
\* order.
C5_ExactlyOnceInOrder ==
    /\ ListenerEvents(consumed) = Ids(Len(ListenerEvents(consumed)))
    /\ (IS_RUNNING =>
            ListenerEvents(consumed) \o ListenerEvents(hotkeyChan)
                \o bridgeHeld \o asyncChan = Ids(emitted))

\* C5 witness: two listener events were both consumed, while running.
C5_Witness_TwoRelayed ==
    ListenerEvents(consumed) = <<1, 2>> /\ IS_RUNNING /\ Alive

\* C6: stop() on a recorder on which start() was never called returns the
\* "no data" result.
C6_StopWithoutStart ==
    (lastCall.op = "stop" /\ ~everStarted) => lastCall.kind = "NoData"

\* C6 witness: stop() has returned on a recorder never started.
C6_Witness_StopFirst ==
    lastCall.op = "stop" /\ ~everStarted

\* C7 (as claimed; refuted): a stop() that directly follows a stop() which
\* returned data returns "no data".
C7_SecondStopNoData ==
    [][(/\ lastCall.op = "stop" /\ lastCall.kind = "Data"
        /\ calls' = calls + 1 /\ lastCall'.op = "stop")
          => lastCall'.kind = "NoData"]_vars

\* The capacity the negotiated configuration and max_time call for.
NegotiatedCap == stream_config.sample_rate * stream_config.channels * max_time

\* C8 (as claimed; refuted): once more samples than the session's capacity
\* (negotiated rate x channels x max duration) were delivered, the buffer holds
\* exactly the first that many and the cap-reached indication is set
\* (is_recording() reports false).
C8_CapReached ==
    (stream /\ delivered > NegotiatedCap)
        => (frames = FirstDelivered(NegotiatedCap) /\ ~is_recording_flag)

\* C9 (as claimed; refuted): when start() fails in the toggle handler the
\* orchestrator is Idle again and the control loop keeps running.
C9_StartFailureStaysIdle ==
    (lastCall.op = "start" /\ lastCall.kind = "Err" /\ IS_RUNNING)
        => (~app_is_recording /\ Alive)

FromBytes(lo, hi) == IF lo + 256 * hi >= 32768 THEN lo + 256 * hi - 65536 ELSE lo + 256 * hi
Decoded(file) ==
    [i \in 1..(file.data_len \div 2) |-> FromBytes(file.bytes[2 * i - 1], file.bytes[2 * i])]

\* C11: a call of the encoder with an empty sample sequence returns an error
\* and leaves no file at the path.
C11_EmptyInputRejected ==
    (wavResult # "none" /\ wavIn = <<>>) => (wavResult = "Err" /\ ~wavFile.exists)

\* C11 witness: the encoder was called with an empty sequence and returned an error.
C11_Witness_EmptyCall ==
    wavIn = <<>> /\ wavResult = "Err"

\* C12: for every (non-NaN) input sample of a successful encode, the sample
\* in the file is its product with 32767 brought into [-32768, 32767]: a
\* product at or above 32767 is written as 32767, one at or below -32768 as
\* -32768 (no wrap-around), and one in between as its integer part.
C12_ScaledAndClamped ==
    wavResult = "Ok" =>
        /\ Len(Decoded(wavFile)) = Len(wavIn)
        /\ \A i \in 1..Len(wavIn) :
              ~wavIn[i].nan =>
                LET out == Decoded(wavFile)[i]
                    scaled16 == wavIn[i].num * 32767     \* 16 x the product
                IN /\ out \in -32768..32767
                   /\ (scaled16 >= 32767 * 16 => out = 32767)
                   /\ (scaled16 <= -32768 * 16 => out = -32768)
                   /\ (scaled16 \in (-32768 * 16)..(32767 * 16) =>
                         /\ IF scaled16 >= 0 THEN out * 16 <= scaled16
                                             ELSE out * 16 >= scaled16
                         /\ scaled16 - out * 16 \in -15..15)

\* C12 witness: an encode succeeded on samples above 1.0 and below -1.0.
C12_Witness_OutOfRangeEncoded ==
    /\ wavResult = "Ok"
    /\ \E i \in 1..Len(wavIn) : ~wavIn[i].nan /\ wavIn[i].num > 16
    /\ \E i \in 1..Len(wavIn) : ~wavIn[i].nan /\ wavIn[i].num < -16

\* The samples of a buffer that are numbers in [-1.0, 1.0].
InRange(data) == \A i \in 1..Len(data) : ~data[i].nan /\ data[i].num \in -16..16

\* C13: decoding the file of a successful encode of in-range samples gives
\* as many samples as were encoded, the i-th within one unit (one least
\* significant bit of the 16-bit scale) of the i-th input times 32767.
C13_RoundTrip ==
    (wavResult = "Ok" /\ InRange(wavIn)) =>
        /\ Len(Decoded(wavFile)) = Len(wavIn)
        /\ \A i \in 1..Len(wavIn) :
              Decoded(wavFile)[i] * 16 - wavIn[i].num * 32767 \in -16..16

\* C13 witness: two different in-range samples were encoded, positive then
\* negative.
C13_Witness_TwoSamples ==
    /\ wavResult = "Ok"
    /\ wavIn = <<Num(9), Num(-9)>>

\* C20 (as claimed; refuted): after an encode call the path holds a file only
\* if the call succeeded, and then the file holds every sample: a failed
\* call leaves no file.
C20_NoPartialFile ==
    wavFile.exists =>
        /\ wavResult = "Ok"
        /\ wavFile.data_len = 2 * Len(wavIn)
        /\ Len(wavFile.bytes) = 2 * Len(wavIn)

\* C14 (as claimed; refuted): poll is never called with a descriptor in its
\* set whose device has vanished, and no such descriptor is read.
C14_StaleDeviceExcluded ==
    staleAtPoll = {} /\ ~staleRead

\* C19: once IS_RUNNING is false the control loop exits, and on the evdev
\* backend the poll loop of the listener thread ends.
C19_LoopsExit ==
    /\ ~IS_RUNNING ~> mainPc = "exited"
    /\ (~IS_RUNNING /\ backend = "evdev") ~> pollPc = "done"

\* C19 witness: the flag was cleared while the poll loop was waiting on a
\* device, and both loops have ended.
C19_Witness_BothLoopsEnded ==
    /\ ~IS_RUNNING /\ backend = "evdev"
    /\ devices # {}
    /\ mainPc = "exited" /\ pollPc = "done"

\* C15 (as claimed; refuted): a fault reported on the open stream leaves no
\* thread panicked (a stream whose fault was reported has its thread in the
\* state err_fn left it in).
C15_StreamFaultNoPanic ==
    stream_thread # "panicked"

\* C16 (as claimed; refuted): once rdev::listen has returned an error the
\* listener has stopped, IS_RUNNING is false and listen was not called again.
C16_ListenFailureFatal ==
    listenErrors > 0 => (listenerPc = "done" /\ ~IS_RUNNING /\ listenCalls = 1)

\* C17 (as claimed; refuted): fed the same key events, the two matchers have
\* emitted the same number of toggles after every event and agree on
\* modifier_down.
C17_BackendsAgree ==
    rdevToggles = evdevToggles /\ state.mod_pressed = modifier_pressed

\* C18 (as claimed; refuted): while a session captures, max_frames is the
\* negotiated sample rate x negotiated channels x max_time.
C18_CapacityIsNegotiated ==
    (stream /\ is_recording_flag) => max_frames = NegotiatedCap

C22_AnyModifierVariantCounts ==
    [][(/\ physDown \cap ModifierKeys # {}
        /\ TargetKey \in physDown' \ physDown
        /\ listenerPc = "listening" /\ IS_RUNNING /\ bridgePc # "done")
          => emitted' = emitted + 1]_vars

\* C24: after stop() has returned, with data, with no data or with an error,
\* the recorder holds no device stream and no stream thread is left.
C24_StopReleasesStream ==
    lastCall.op = "stop" => (~stream /\ stream_thread = "none")

\* C24 witness: stop() returned an error because pause() failed on an open
\* stream that had delivered samples, and the stream is gone.
C24_Witness_PauseFailed ==
    /\ lastCall.op = "stop" /\ lastCall.kind = "Err"
    /\ frames # <<>> /\ stream_config # NoConfig
    /\ ~stream

\* C25 (as claimed; refuted): is_recording() is true exactly while a session
\* is active, that is from a successful start() to the next stop(), whatever
\* the number of samples delivered (stated for a recorder with room for
\* at least one sample).
C25_FlagTracksSession ==
    max_frames > 0 => (is_recording_flag <=> stream)

\* C27: a start() that runs the negotiation on a recorder that is not
\* recording fails and leaves the recorder not recording when no advertised
\* format has at most MAX_CHANNELS channels and a rate at or below
\* MAX_SAMPLE_RATE; when it succeeds, the negotiated channels and rate do not
\* exceed the maxima, lie in an advertised qualifying format, and no
\* qualifying format offers more channels, or the same channels with a higher
\* rate at or below the maximum.
Qualifies(c) == c.channels <= MAX_CHANNELS /\ c.min_sample_rate <= MAX_SAMPLE_RATE
C27_NegotiationPicksBest ==
    [][(lastCall'.op = "start" /\ calls' = calls + 1 /\ ~is_recording_flag) =>
        /\ (\A c \in advertised' : ~Qualifies(c))
              => (lastCall'.kind = "Err" /\ ~is_recording_flag' /\ stream' = stream)
        /\ lastCall'.kind = "Ok" =>
              /\ is_recording_flag'
              /\ stream_config'.channels <= MAX_CHANNELS
              /\ stream_config'.sample_rate <= MAX_SAMPLE_RATE
              /\ \E c \in advertised' :
                     /\ Qualifies(c)
                     /\ c.channels = stream_config'.channels
                     /\ c.min_sample_rate <= stream_config'.sample_rate
                     /\ stream_config'.sample_rate <= c.max_sample_rate
              /\ \A d \in advertised' :
                     Qualifies(d) =>
                        \/ d.channels < stream_config'.channels
                        \/ /\ d.channels = stream_config'.channels
                           /\ Min(d.max_sample_rate, MAX_SAMPLE_RATE)
                                 <= stream_config'.sample_rate]_vars

\* C27 witness: a session started on a device that advertises a format with
\* too many channels, a mono format reaching the rate ceiling and a stereo
\* format below it: stereo at the lower rate is negotiated.
C27_Witness_StereoPreferred ==
    /\ advertised = {Range(1, 8000, 48000), Range(2, 8000, 32000), Range(4, 48000, 48000)}
    /\ lastCall.op = "start" /\ lastCall.kind = "Ok" /\ is_recording_flag
    /\ stream_config = [channels |-> 2, sample_rate |-> 32000]

\* C28 (as claimed; refuted): when a round over the ready descriptors ends
\* and the loop goes on, every tracked device that had vanished and whose
\* read therefore failed in that round has left the tracked set (it may have
\* been opened anew).
C28_EveryFailedDeviceRemoved ==
    [][(pollPc = "process" /\ pollPc' = "test")
          => (ready \cap devices \cap stale) \cap devices' \cap stale' = {}]_vars

\* C29 (as claimed; refuted): while the evdev thread runs and polls another,
\* healthy device, a device that exists and is not tracked is eventually
\* tracked, or gone again, or the thread at least reaches a point from which
\* the device set can be scanned (the initial scan, the rescan after the
\* sleep, a round over ready descriptors), or a tracked device vanishes, or
\* the thread has ended.
C29_NewDeviceEventuallyScanned ==
    \A p \in DevicePaths :
        (/\ p \in present /\ p \notin devices /\ pollPc \in {"test", "poll"}
         /\ devices # {} /\ poll_fds = devices /\ stale = {})
          ~> (\/ p \in devices
              \/ p \notin present
              \/ stale # {}
              \/ pollPc \in {"scan", "sleep", "process", "done"})

\* C30: a path whose open was refused for lack of permission in the last
\* scan is not tracked and not in the poll set, and as long as shutdown has
\* not been requested the thread has not ended.
C30_DeniedDeviceSkipped ==
    denied # {} =>
        /\ denied \cap devices = {}
        /\ denied \cap poll_fds = {}
        /\ IS_RUNNING => pollPc # "done"

\* C30 witness: in the initial scan event0 was refused, event1 was opened and
\* is polled.
C30_Witness_OtherDeviceAdded ==
    /\ denied = {"event0"}
    /\ devices = {"event1"} /\ poll_fds = {"event1"}
    /\ pollPc = "poll" /\ IS_RUNNING
    /\ staleAtPoll = {} /\ ~staleRead /\ stale = {}

\* C23 (as claimed; refuted): once stop() has cleared the flag, no sample is
\* appended to the buffer.
C23_NoAppendAfterSignal ==
    ~lateAppend

\* C23 (amended): the buffer stop() returns is the whole buffer at its
\* return, and between the return of stop() and the next call the buffer
\* does not change, also when an invocation of the callback that had passed
\* its flag test appended after the flag was cleared.
C23_ReturnedBufferFinal ==
    [][/\ (ctlPc' = "idle" /\ lastCall'.op = "stop" /\ lastCall'.kind = "Data")
            => lastCall'.data = frames'
       /\ (ctlPc = "idle" /\ lastCall.op = "stop")
            => frames' = frames]_vars

\* C23 witness: stop() has returned the buffer of a session in which a chunk
\* was appended after the flag was cleared.
C23_Witness_LateChunkReturned ==
    /\ ctlPc = "idle" /\ cbPc = "idle"
    /\ lastCall.op = "stop" /\ lastCall.kind = "Data"
    /\ lateAppend
    /\ lastCall.data = frames

\* C26 (as claimed; refuted): no invocation of the callback waits for a mutex
\* that the control thread holds inside start(), stop() or is_recording().
C26_CallbackNeverWaits ==
    /\ ~(cbPc \in {"flag1", "flag2", "flag3"} /\ flagLock = "ctl")
    /\ ~(cbPc = "frames" /\ framesLock = "ctl")

\* C31: with an empty poll set the evdev thread does not end: from its loop
\* test it reaches the sleep before the rescan (unless shutdown was
\* requested), the sleep and rescan end and bring it back to the loop test,
\* and once the poll set is not empty the loop test goes on to poll.
C31_EmptySetKeepsRescanning ==
    /\ (pollPc = "test" /\ poll_fds = {}) ~> (pollPc = "sleep" \/ ~IS_RUNNING)
    /\ (pollPc = "sleep") ~> (pollPc = "test")
    /\ (pollPc = "test" /\ poll_fds # {}) ~> (pollPc = "poll" \/ ~IS_RUNNING)

\* C31 witness: every device is gone, the thread has found none and sleeps
\* before its next rescan, still running.
C31_Witness_SleepingWithNoDevice ==
    /\ pollPc = "sleep" /\ present = {} /\ devices = {} /\ poll_fds = {}
    /\ IS_RUNNING

\* A step of one process_recorded_audio task.
IsJobStep == Len(jobs') = Len(jobs) /\ jobs' # jobs

\* C32: a task calls a transcription function only after save_f32_to_wav
\* returned Ok; a task whose encode failed has ended without a request; and no
\* step of a task changes the session state of the control loop, the recorder,
\* or another task.
C32_TranscribeOnlyAfterEncode ==
    [][/\ \A i \in 1..Len(jobs') :
            /\ jobs'[i].requests > 0 => jobs'[i].encode = "Ok"
            /\ jobs'[i].encode = "Err" => jobs'[i].pc = "done" /\ jobs'[i].requests = 0
       /\ IsJobStep =>
            /\ UNCHANGED <<mainVars, recorderVars>>
            /\ Cardinality({i \in 1..Len(jobs) : jobs'[i] # jobs[i]}) = 1]_vars

\* C32 witness: the first recording failed to encode and was dropped, and the
\* recording made after it was encoded and sent for transcription.
C32_Witness_LaterRecordingTranscribed ==
    /\ Len(jobs) = 2
    /\ jobs[1].encode = "Err" /\ jobs[1].pc = "done" /\ jobs[1].requests = 0
    /\ jobs[2].encode = "Ok" /\ jobs[2].requests = 1

\* C39 as stated: a task that has ended after a successful encode has left no
\* file at wav_path.
C39_FileRemovedAfterTranscription ==
    \A i \in 1..Len(jobs) :
        jobs[i].pc = "done" /\ jobs[i].encode = "Ok" => jobs[i].file = "none"

\* C39: a task that has ended after a successful encode has made one
\* transcription request and then called remove_file once, whatever the
\* request returned, and the file is gone when remove_file returned Ok; a task
\* whose encode failed calls neither.
C39_RemovalAttemptedOnEveryArm ==
    \A i \in 1..Len(jobs) :
        /\ jobs[i].pc = "done" /\ jobs[i].encode = "Ok" =>
              /\ jobs[i].transcription \in {"Text", "Empty", "Err"}
              /\ jobs[i].removes = 1
              /\ jobs[i].removal = "Ok" => jobs[i].file = "none"
        /\ jobs[i].removes > 0 => jobs[i].transcription # "none"
        /\ jobs[i].encode = "Err" => jobs[i].removes = 0

\* C39 witness: one task whose transcription failed and one whose
\* transcription was empty have both ended with their files removed.
C39_Witness_RemovedAfterFailure ==
    /\ Len(jobs) = 2
    /\ jobs[1].pc = "done" /\ jobs[1].transcription = "Err" /\ jobs[1].file = "none"
    /\ jobs[2].pc = "done" /\ jobs[2].transcription = "Empty" /\ jobs[2].file = "none"
    /\ jobs[1].removes = 1 /\ jobs[2].removes = 1

\* The last outcome met by the call.
LastOutcome == api.trace[Len(api.trace)]

\* C33: a call of a transcription function sends at most retries + 1 HTTP
\* requests; when every iteration of its loop was used up it has returned an
\* error; and a timeout or connection error met in the last iteration ends the
\* call with that request error.
C33_AtMostRetriesPlusOneAttempts ==
    /\ api.attempts <= api.retries + 1
    /\ Len(api.trace) <= api.retries + 1
    /\ api.pc = "done" /\ api.attempt > api.retries => api.result = "ErrExhausted"
    /\ (/\ Len(api.trace) = api.retries + 1
        /\ LastOutcome \in {"timeout", "connect"})
          => api.pc = "done" /\ api.result = "ErrRequest" /\ api.attempt = api.retries

\* C33 witness: with retries = 2 two requests were retried and the third timed
\* out; the call returned that error after three requests.
C33_Witness_TimeoutOnLastAttempt ==
    /\ api.retries = 2 /\ api.attempts = 3
    /\ api.trace = <<"5xx", "timeout", "timeout">>
    /\ api.pc = "done" /\ api.result = "ErrRequest"

\* An iteration met outcome i of the trace and the call went on to the next
\* iteration (or to the end of the loop).
Continued(i) == i < Len(api.trace) \/ api.pc = "loop"

\* C34: of the HTTP responses only 429 and 5xx are followed by another
\* iteration, and they always are; a response with any other non-success
\* status ends the call with an error at once; a success response ends the
\* attempts with the result.
C34_OnlyThrottleAndServerErrorsRetried ==
    \A i \in 1..Len(api.trace) :
        /\ (api.trace[i] \in Statuses /\ Continued(i)) => api.trace[i] \in {"429", "5xx"}
        /\ (api.trace[i] \in {"429", "5xx"}) =>
               \/ Continued(i)
               \/ i = api.retries + 1 /\ api.result = "ErrExhausted"
        /\ api.trace[i] = "other_status" =>
               /\ i = Len(api.trace) /\ api.pc = "done" /\ api.result = "ErrStatus"
               /\ api.attempts = i
        /\ api.trace[i] = "success" =>
               /\ i = Len(api.trace) /\ api.pc = "done"
               /\ api.result \in {"Ok", "Created"}

\* C34 witness: with two retries left, a 429 was retried and the next response
\* had a client-error status: the call returned an error after two requests.
C34_Witness_ClientErrorEndsCall ==
    /\ api.retries = 2 /\ api.trace = <<"429", "other_status">>
    /\ api.attempts = 2 /\ api.pc = "done" /\ api.result = "ErrStatus"

\* C35: whenever a call of the control thread or an invocation of the callback
\* is in progress, one of the two can take a step; the control thread never
\* holds both mutexes, holds the flag mutex only for the one statement that
\* uses it and the frames mutex only for the one that uses the buffer; and
\* the callback never holds the flag mutex from one statement to the next.
C35_NoDeadlock ==
    /\ (ctlPc # "idle" \/ cbPc # "idle") => (ENABLED CtlProgress \/ ENABLED CbProgress)
    /\ ~(flagLock = "ctl" /\ framesLock = "ctl")
    /\ flagLock = "ctl" => ctlPc \in {"start_isrec", "start_flag", "stop_flag", "isrec"}
    /\ framesLock = "ctl" => ctlPc \in {"start_clear", "stop_frames"}
    /\ flagLock # "cb"
    /\ framesLock = "cb" <=> cbPc \in {"body", "flag2", "flag3"}

\* C35 witness: the callback holds the frames mutex at the full buffer and
\* needs the flag mutex, which the control thread holds inside stop().
C35_Witness_CallbackWaitsForFlag ==
    /\ cbPc = "flag2" /\ framesLock = "cb"
    /\ ctlPc = "stop_flag" /\ flagLock = "ctl"
    /\ max_frames > 0

\* C36: the stdin task never has sent more toggles than the operator has
\* entered lines; in particular it sends none once stdin is closed and every
\* line entered has been read.
C36_NoToggleWithoutLine == stdinSent <= terminal.typed

\* C37: a call of start() made while a stream is open (a session is in
\* progress, stop() has not been called) returns Ok and leaves the buffer,
\* the stream and the stream configuration as they were.
C37_StartInSessionIsNoOp ==
    [][(/\ stream /\ max_frames > 0
        /\ calls' = calls + 1 /\ lastCall'.op = "start")
          => /\ lastCall'.kind = "Ok"
             /\ UNCHANGED <<frames, stream, stream_config>>]_vars

\* C38: whenever new returns a recorder, its max_frames is the exact product
\* of 44100 * 2 and max_time_seconds.
C38_MaxFramesIsExactProduct ==
    created.kind = "Ok" =>
        created.max_frames =
            WideMul(Digits(MAX_SAMPLE_RATE * MAX_CHANNELS, U32_LIMBS),
                    Digits(created.arg, U32_LIMBS))

\* C40: in the main-o3 variant a recording during which a toggle was
\* generated has ended before its maximum duration had elapsed, and the
\* toggle is not left in the channel while that recording goes on to the
\* maximum.
C40_ToggleEndsRecording ==
    (o3.mainPc = "processing" /\ o3.toggledDuring) => o3.endedAt < O3MaxSecs

====
